---------------------------- MODULE Spec2Model ----------------------------
(***************************************************************************)
(* Model of the moving-average trading engine                              *)
(* (backend/services/ema_trading.py, class MATradingEngine).               *)
(*                                                                         *)
(* One run of run_analysis is a sequential pipeline over a price frame df: *)
(* indicators -> _generate_signals (one step per bar) -> _execute_trades   *)
(* (one step per signal, then the end-of-data closure) ->                  *)
(* _generate_equity_curve.  Prices are integers; moving averages, ATR and  *)
(* the trailing stop are exact rationals [n, d] (d = 0 is pandas' NaN);    *)
(* on long series the recursive averages are cut to a fixed precision.     *)
(* Bars are numbered from 0 as in the code (df.iloc[i]); At(s, i) reads a  *)
(* column.                                                                 *)
(***************************************************************************)
EXTENDS Integers, Sequences, FiniteSets, TLC

(***************************************************************************)
(* Bounds of the model and the input domains.                              *)
(***************************************************************************)
NumBars == 8

\* The length of the series that are too short for the longer slow windows.
ShortBars == 3

Closes == {1, 3, 4}

Spreads == {0}

Opens == {2, 3}

\* df.index: the trading days of the bars (a weekend lies between the
\* third and the fourth bar, and between the eighth and the ninth).
TradingDays == <<1, 2, 3, 6, 7, 8, 9, 10, 13, 14, 15, 16>>

\* Constructor arguments of MATradingEngine that the runs are checked with:
\* a simple-moving-average engine that sizes positions with all of the
\* available capital, an exponential one that sizes them with 150 percent,
\* and a simple-moving-average engine with shorter periods that sizes them
\* with half of the capital.
Configs ==
    { [initial_capital |-> 5, atr_period |-> 4,
       atr_multiplier |-> [n |-> 2, d |-> 1], ma_type |-> "sma",
       ma_21_period |-> 3, ma_50_period |-> 4,
       mean_reversion_threshold |-> 10,
       position_sizing_percentage |-> 100],
      [initial_capital |-> 10, atr_period |-> 4,
       atr_multiplier |-> [n |-> 1, d |-> 2], ma_type |-> "ema",
       ma_21_period |-> 3, ma_50_period |-> 4,
       mean_reversion_threshold |-> 50,
       position_sizing_percentage |-> 150],
      [initial_capital |-> 4, atr_period |-> 3,
       atr_multiplier |-> [n |-> 1, d |-> 1], ma_type |-> "sma",
       ma_21_period |-> 2, ma_50_period |-> 3,
       mean_reversion_threshold |-> 10,
       position_sizing_percentage |-> 50] }

\* Optional values: None is the empty tuple, a present value x is <<x>>.
None == <<>>
Some(x) == <<x>>
Val(o) == o[1]
Unread == 0

(***************************************************************************)
(* Exact arithmetic: the real-number reading of the code's floats.         *)
(***************************************************************************)
Abs(x) == IF x < 0 THEN -x ELSE x

RECURSIVE GCD(_, _)
GCD(a, b) == IF b = 0 THEN a ELSE GCD(b, a % b)

Rat(n, d) ==
    LET g == GCD(Abs(n), d)
    IN  [n |-> n \div g, d |-> d \div g]

FromInt(k) == [n |-> k, d |-> 1]

NaN == [n |-> 0, d |-> 0]

isna(x) == x.d = 0

\* The operations cancel the common factor of the denominators first, which
\* keeps every intermediate product small.
LeftScale(a, b) == b.d \div GCD(a.d, b.d)
RAdd(a, b) ==
    Rat(a.n * LeftScale(a, b) + b.n * LeftScale(b, a), a.d * LeftScale(a, b))
RSub(a, b) ==
    Rat(a.n * LeftScale(a, b) - b.n * LeftScale(b, a), a.d * LeftScale(a, b))
RMul(a, b) ==
    LET x == Rat(a.n, b.d)
        y == Rat(b.n, a.d)
    IN  Rat(x.n * y.n, x.d * y.d)
\* A comparison with NaN is false, as in numpy.
RLt(a, b) ==
    a.d > 0 /\ b.d > 0 /\ a.n * LeftScale(a, b) < b.n * LeftScale(b, a)
RLe(a, b) ==
    a.d > 0 /\ b.d > 0 /\ a.n * LeftScale(a, b) <= b.n * LeftScale(b, a)
REq(a, b) ==
    a.d > 0 /\ b.d > 0 /\ a.n * LeftScale(a, b) = b.n * LeftScale(b, a)
RMax(a, b) == IF RLt(a, b) THEN b ELSE a
RAbs(a) == [n |-> Abs(a.n), d |-> a.d]
\* a / b for a positive b.
RDiv(a, b) == RMul(a, [n |-> b.d, d |-> b.n])

\* int(x): truncation toward zero of the rational n/d, d > 0.
Trunc(n, d) == IF n >= 0 THEN n \div d ELSE -((-n) \div d)

At(s, i) == s[i + 1]

Last(s) == s[Len(s)]

(***************************************************************************)
(* Indicators.                                                             *)
(***************************************************************************)
\* The precision of the recursive averages: a value stays exact while its
\* denominator is at most MaxExact and is cut to a multiple of 1/Grid
\* beyond, the model's stand-in for the rounding of a float. The short
\* series never reach MaxExact; on the long ones the error stays below
\* (period + 1) / (2 * Grid).
MaxExact == 80000

Grid == 256

Float(x) ==
    IF x.d <= MaxExact THEN x
    ELSE Rat((x.n \div x.d) * Grid + ((x.n % x.d) * Grid) \div x.d, Grid)

\* data.ewm(span=period, adjust=False).mean(), the first k values:
\* y[1] = x[1], y[j] = a*x[j] + (1-a)*y[j-1] with a = 2/(period+1).
\* The values lo..hi appended to the values before them.
RECURSIVE EwmBlock(_, _, _, _, _)
EwmBlock(before, data, period, lo, hi) ==
    IF hi < lo THEN before
    ELSE LET y == EwmBlock(before, data, period, lo, hi - 1)
         IN  Append(y, Float(RAdd(RMul(Rat(2, period + 1), data[hi]),
                                  RMul(Rat(period - 1, period + 1), y[hi - 1]))))

\* The recursion is evaluated in blocks of EwmBlockLen values, each block
\* on top of the finished values before it.
EwmBlockLen == 10

RECURSIVE EwmMean(_, _, _)
EwmMean(data, period, k) ==
    IF k = 1 THEN <<data[1]>>
    ELSE LET done == IF k - 1 > EwmBlockLen THEN k - 1 - EwmBlockLen ELSE 1
             before == EwmMean(data, period, done)
         IN  IF Len(before) = done
             THEN EwmBlock(before, data, period, done + 1, k)
             ELSE <<>>

calculate_ema(data, period) == EwmMean(data, period, Len(data))

RECURSIVE SumRange(_, _, _)
SumRange(data, lo, hi) ==
    IF lo > hi THEN FromInt(0) ELSE RAdd(data[hi], SumRange(data, lo, hi - 1))

\* Variant of calculate_sma that averages the bars that are there while the
\* window is not full (min_periods=1).
calculate_sma_partial_windows(data, period) ==
    [k \in 1..Len(data) |->
        IF k < period THEN RMul(SumRange(data, 1, k), Rat(1, k))
        ELSE RMul(SumRange(data, k - period + 1, k), Rat(1, period))]

\* data.rolling(window=period).mean(): NaN until a full window is there.
calculate_sma(data, period) ==
    [k \in 1..Len(data) |->
        IF k < period THEN NaN
        ELSE RMul(SumRange(data, k - period + 1, k), Rat(1, period))]

calculate_ma(ma_type, data, period) ==
    IF ma_type = "sma" THEN calculate_sma(data, period)
    ELSE calculate_ema(data, period)

\* max over tr1, tr2, tr3; on the first bar close.shift(1) is NaN and
\* DataFrame.max skips it, leaving high - low.
TrueRange(frame, k) ==
    LET tr1 == frame.high[k] - frame.low[k]
    IN  IF k = 1 THEN FromInt(tr1)
        ELSE LET tr2 == Abs(frame.high[k] - frame.close[k - 1])
                 tr3 == Abs(frame.low[k] - frame.close[k - 1])
                 m12 == IF tr1 >= tr2 THEN tr1 ELSE tr2
             IN  FromInt(IF m12 >= tr3 THEN m12 ELSE tr3)

calculate_atr(frame, period) ==
    calculate_ema([k \in 1..Len(frame.close) |-> TrueRange(frame, k)], period)

ToRats(col) == [k \in 1..Len(col) |-> FromInt(col[k])]

(***************************************************************************)
(* Program state.                                                          *)
(***************************************************************************)
VARIABLES
    cfg,        \* the engine's constructor arguments
    df,         \* the price frame, with the columns run_analysis adds
    pc,         \* position of run_analysis
    i,          \* _generate_signals: loop index (bar)
    in_trade,
    current_trailing_stop,
    highest_price_since_entry,
    last_exit_date,
    gen_reentry_count,   \* reentry_count of _generate_signals
    signals,
    k,          \* _execute_trades: index of the next signal
    current_position,
    available_capital,
    reentry_count,       \* reentry_count of _execute_trades
    trades,
    alert_i,    \* _generate_mean_reversion_alerts: loop index (bar)
    alert_triggered,
    peak_distance,
    alerts,
    performance_metrics,
    equity_curve,
    run_no,       \* caller: which call of run_analysis on this frame is running
    first_result, \* caller: the MAResults the first call returned
    other,        \* caller: the configuration of a second, concurrent engine
    opt_pc,       \* position of universal_optimization / optimize_ma_pairs
    stock_data,   \* what get_stock_data returns for each symbol
    sweep,        \* fast_ma_range, slow_ma_range, min_distance of the request
    sym_index,    \* universal_optimization: index of the next symbol
    ma_pairs,     \* optimize_ma_pairs: the generated pairs
    pair_index,   \* optimize_ma_pairs: index of the next pair
    results,      \* optimize_ma_pairs: the results appended so far
    evaluations,  \* history: the pairs tested for this symbol and how each ended
    summary,      \* optimize_ma_pairs: the OptimizationSummary it built last
    status,       \* history: how optimize_ma_pairs ended for each symbol
    universal_results,  \* universal_optimization: symbol -> summary
    pair_frequency      \* the route's best-pair counts

gen_vars == <<i, in_trade, current_trailing_stop, highest_price_since_entry,
              last_exit_date, gen_reentry_count, signals>>
exec_vars == <<k, current_position, available_capital, reentry_count, trades>>
alert_vars == <<alert_i, alert_triggered, peak_distance, alerts>>
result_vars == <<alert_vars, performance_metrics, equity_curve>>
caller_vars == <<run_no, first_result, other>>
opt_vars == <<opt_pc, stock_data, sweep, sym_index, ma_pairs, pair_index,
              results, evaluations, summary, status, universal_results,
              pair_frequency>>
outer_vars == <<caller_vars, opt_vars>>
vars == <<cfg, df, pc, gen_vars, exec_vars, result_vars, outer_vars>>

n_bars == Len(df.close)

Date(idx) == At(df.date, idx)

\* The frame the caller passes: dates, OHLC columns, no indicator columns.
Frame(closes, sp) ==
    [date  |-> SubSeq(TradingDays, 1, Len(closes)),
     open  |-> [b \in 1..Len(closes) |-> Unread],
     high  |-> [b \in 1..Len(closes) |-> closes[b] + sp],
     low   |-> [b \in 1..Len(closes) |-> closes[b] - sp],
     close |-> closes,
     ma_21 |-> <<>>, ma_50 |-> <<>>, atr |-> <<>>]

\* No function of the engine has run: its locals hold their start values.
NothingRun ==
    /\ i = 0
    /\ in_trade = FALSE
    /\ current_trailing_stop = None
    /\ highest_price_since_entry = None
    /\ last_exit_date = None
    /\ gen_reentry_count = 0
    /\ signals = <<>>
    /\ k = 1
    /\ current_position = None
    /\ available_capital = 0
    /\ reentry_count = 0
    /\ trades = <<>>
    /\ alert_i = 0
    /\ alert_triggered = FALSE
    /\ peak_distance = FromInt(0)
    /\ alerts = <<>>
    /\ performance_metrics = None
    /\ equity_curve = <<>>

\* A fresh engine and a frame of one of the lengths, with closes from the
\* given set; nothing has run.
InitEngine(configs, lengths, closeset) ==
    /\ cfg \in configs
    /\ \E len \in lengths :
       \E closes \in [1..len -> closeset], sp \in Spreads :
         df = Frame(closes, sp)
    /\ pc = "start"
    /\ NothingRun

\* One call of run_analysis, alone.
SingleCall ==
    /\ run_no = 1
    /\ first_result = None
    /\ other = None

\* No optimizer is at work.
NoSweep ==
    /\ opt_pc = "idle"
    /\ stock_data = <<>>
    /\ sweep = None
    /\ sym_index = 1
    /\ ma_pairs = <<>>
    /\ pair_index = 1
    /\ results = <<>>
    /\ evaluations = <<>>
    /\ summary = None
    /\ status = <<>>
    /\ universal_results = <<>>
    /\ pair_frequency = <<>>

Init ==
    /\ InitEngine(Configs, {ShortBars, NumBars}, Closes)
    /\ SingleCall
    /\ NoSweep


(***************************************************************************)
(* run_analysis: the length check and the indicator columns.               *)
(***************************************************************************)
\* Variant of start_index that lets the loop begin on the second bar.
start_index_second_bar == IF cfg.ma_50_period > 1 THEN 1 ELSE cfg.ma_50_period

\* max(self.ma_50_period, self.atr_period)
start_index ==
    IF cfg.ma_50_period >= cfg.atr_period THEN cfg.ma_50_period
    ELSE cfg.atr_period

\* df['ma_21'], df['ma_50'] and df['atr'] are written into the caller's frame.
WithIndicatorsOf(c, frame) ==
    [frame EXCEPT
       !.ma_21 = calculate_ma(c.ma_type, ToRats(frame.close), c.ma_21_period),
       !.ma_50 = calculate_ma(c.ma_type, ToRats(frame.close), c.ma_50_period),
       !.atr   = calculate_atr(frame, c.atr_period)]

WithIndicators(frame) == WithIndicatorsOf(cfg, frame)

\* Variant of RunAnalysis that also rejects a series of exactly
\* ma_50_period bars.
RunAnalysis_rejects_equal_length ==
    /\ pc = "start"
    /\ IF n_bars <= cfg.ma_50_period
       THEN /\ pc' = "error"
            /\ UNCHANGED <<df, gen_vars>>
       ELSE /\ df' = WithIndicators(df)
            /\ pc' = "signals"
            /\ i' = start_index
            /\ in_trade' = FALSE
            /\ current_trailing_stop' = None
            /\ highest_price_since_entry' = None
            /\ last_exit_date' = None
            /\ gen_reentry_count' = 0
            /\ signals' = <<>>
    /\ UNCHANGED <<cfg, exec_vars, result_vars, outer_vars>>

\* Variant of RunAnalysis in which the signal list outlives the call (as a
\* list kept on the engine would) instead of starting empty.
RunAnalysis_keeps_signals ==
    /\ pc = "start"
    /\ IF n_bars < cfg.ma_50_period
       THEN /\ pc' = "error"
            /\ UNCHANGED <<df, gen_vars>>
       ELSE /\ df' = WithIndicators(df)
            /\ pc' = "signals"
            /\ i' = start_index
            /\ in_trade' = FALSE
            /\ current_trailing_stop' = None
            /\ highest_price_since_entry' = None
            /\ last_exit_date' = None
            /\ gen_reentry_count' = 0
            /\ UNCHANGED signals
    /\ UNCHANGED <<cfg, exec_vars, result_vars, outer_vars>>

RunAnalysis ==
    /\ pc = "start"
    /\ IF n_bars < cfg.ma_50_period
       THEN /\ pc' = "error"      \* raise ValueError("Not enough data ...")
            /\ UNCHANGED <<df, gen_vars>>
       ELSE /\ df' = WithIndicators(df)
            /\ pc' = "signals"
            /\ i' = start_index
            /\ in_trade' = FALSE
            /\ current_trailing_stop' = None
            /\ highest_price_since_entry' = None
            /\ last_exit_date' = None
            /\ gen_reentry_count' = 0
            /\ signals' = <<>>
    /\ UNCHANGED <<cfg, exec_vars, result_vars, outer_vars>>

(***************************************************************************)
(* _generate_signals: one loop iteration per action.                       *)
(***************************************************************************)
PrimaryEntryText == "Primary entry: Price closed above 50 MA"
ReentryText == "Re-entry: Price closed above 21 MA (trend confirmed: 21 MA > 50 MA)"
MaSellText == "Price closed below 21 MA"
TrailingStopText == "Price hit trailing stop"
TrendBreakText == "Major trend break: Price closed below 50 MA"

current_price == At(df.close, i)
ma_21 == At(df.ma_21, i)
ma_50 == At(df.ma_50, i)
atr == At(df.atr, i)
prev_close == FromInt(At(df.close, i - 1))

\* pd.isna(ma_21) or pd.isna(ma_50) or pd.isna(atr)
indicators_missing == isna(ma_21) \/ isna(ma_50) \/ isna(atr)

\* Variant of is_new_trend that forgets the "not in_trade" gate.
is_new_trend_without_gate ==
    /\ RLt(ma_50, FromInt(current_price))
    /\ i > 0
    /\ RLe(prev_close, At(df.ma_50, i - 1))

\* Variant of is_new_trend whose previous close must be strictly below the
\* slow average.
is_new_trend_strict ==
    /\ ~in_trade
    /\ RLt(ma_50, FromInt(current_price))
    /\ i > 0
    /\ RLt(prev_close, At(df.ma_50, i - 1))

\* Variant of is_new_trend that takes a close equal to the slow average for
\* a close above it.
is_new_trend_at_or_above ==
    /\ ~in_trade
    /\ RLe(ma_50, FromInt(current_price))
    /\ i > 0
    /\ RLe(prev_close, At(df.ma_50, i - 1))

is_new_trend ==
    /\ ~in_trade
    /\ RLt(ma_50, FromInt(current_price))
    /\ i > 0
    /\ RLe(prev_close, At(df.ma_50, i - 1))

\* Variant of can_reenter without the trend confirmation.
can_reenter_without_trend ==
    /\ ~in_trade
    /\ last_exit_date # None
    /\ RLt(ma_21, FromInt(current_price))
    /\ i > 0
    /\ RLe(prev_close, At(df.ma_21, i - 1))

can_reenter ==
    /\ ~in_trade
    /\ last_exit_date # None
    /\ RLt(ma_21, FromInt(current_price))
    /\ RLt(ma_50, ma_21)
    /\ i > 0
    /\ RLe(prev_close, At(df.ma_21, i - 1))

\* current_price - atr * self.atr_multiplier
StopFrom(price) == RSub(FromInt(price), RMul(atr, cfg.atr_multiplier))

\* The MASignal appended on bar i.  Its ma_21, ma_50 and atr fields repeat
\* the frame's columns at the signal's date and its confidence is a number
\* that nothing in the engine reads back; the record keeps the other fields.
MASignal(type, reasoning, stop) ==
    [date |-> Date(i), signal_type |-> type, price |-> current_price,
     reasoning |-> reasoning, trailing_stop |-> stop]

\* The high-water mark after the in-trade update of this bar.
new_high ==
    highest_price_since_entry = None
      \/ current_price > Val(highest_price_since_entry)

updated_highest ==
    IF new_high THEN Some(current_price) ELSE highest_price_since_entry

\* The trailing stop after the in-trade update of this bar: recomputed from
\* this bar's ATR only when the close sets a new high.
updated_stop ==
    IF new_high THEN Some(StopFrom(current_price)) ELSE current_trailing_stop

\* Variant of sell_reason that tests the trailing stop before the fast
\* average.
sell_reason_stop_first ==
    IF updated_stop # None /\ RLt(FromInt(current_price), Val(updated_stop))
    THEN TrailingStopText
    ELSE IF RLt(FromInt(current_price), ma_21)
    THEN IF i > 0 /\ RLe(At(df.ma_21, i - 1), prev_close)
         THEN MaSellText ELSE ""
    ELSE IF RLt(FromInt(current_price), ma_50)
    THEN TrendBreakText
    ELSE ""

\* The reasoning of the SELL this bar triggers, or "" (sell_triggered false).
sell_reason ==
    IF RLt(FromInt(current_price), ma_21)
    THEN IF i > 0 /\ RLe(At(df.ma_21, i - 1), prev_close)
         THEN MaSellText ELSE ""
    ELSE IF updated_stop # None /\ RLt(FromInt(current_price), Val(updated_stop))
    THEN TrailingStopText
    ELSE IF RLt(FromInt(current_price), ma_50)
    THEN TrendBreakText
    ELSE ""

GenSkip ==
    /\ indicators_missing
    /\ UNCHANGED <<in_trade, current_trailing_stop, highest_price_since_entry,
                   last_exit_date, gen_reentry_count, signals>>

GenPrimaryEntry ==
    /\ ~indicators_missing
    /\ is_new_trend
    /\ current_trailing_stop' = Some(StopFrom(current_price))
    /\ highest_price_since_entry' = Some(current_price)
    /\ gen_reentry_count' = 0
    /\ signals' = Append(signals,
          MASignal("BUY", PrimaryEntryText, Some(StopFrom(current_price))))
    /\ in_trade' = TRUE
    /\ UNCHANGED last_exit_date

\* Variant of GenReentry that does not yield to the primary entry.
GenReentry_before_primary ==
    /\ ~indicators_missing
    /\ can_reenter
    /\ current_trailing_stop' = Some(StopFrom(current_price))
    /\ highest_price_since_entry' = Some(current_price)
    /\ gen_reentry_count' = gen_reentry_count + 1
    /\ signals' = Append(signals,
          MASignal("BUY", ReentryText, Some(StopFrom(current_price))))
    /\ in_trade' = TRUE
    /\ UNCHANGED last_exit_date

GenReentry ==
    /\ ~indicators_missing
    /\ ~is_new_trend
    /\ can_reenter
    /\ current_trailing_stop' = Some(StopFrom(current_price))
    /\ highest_price_since_entry' = Some(current_price)
    /\ gen_reentry_count' = gen_reentry_count + 1
    /\ signals' = Append(signals,
          MASignal("BUY", ReentryText, Some(StopFrom(current_price))))
    /\ in_trade' = TRUE
    /\ UNCHANGED last_exit_date

GenExit ==
    /\ ~indicators_missing
    /\ ~is_new_trend
    /\ ~can_reenter
    /\ in_trade
    /\ IF sell_reason # ""
       THEN /\ signals' = Append(signals,
                 MASignal("SELL", sell_reason, updated_stop))
            /\ in_trade' = FALSE
            /\ last_exit_date' = Some(Date(i))
            /\ current_trailing_stop' = None
            /\ highest_price_since_entry' = None
       ELSE /\ highest_price_since_entry' = updated_highest
            /\ current_trailing_stop' = updated_stop
            /\ UNCHANGED <<signals, in_trade, last_exit_date>>
    /\ UNCHANGED gen_reentry_count

GenIdle ==
    /\ ~indicators_missing
    /\ ~is_new_trend
    /\ ~can_reenter
    /\ ~in_trade
    /\ UNCHANGED <<in_trade, current_trailing_stop, highest_price_since_entry,
                   last_exit_date, gen_reentry_count, signals>>

\* One iteration of: for i in range(start_index, len(df))
GenStep ==
    /\ pc = "signals"
    /\ i < n_bars
    /\ \/ GenSkip
       \/ GenPrimaryEntry
       \/ GenReentry
       \/ GenExit
       \/ GenIdle
    /\ i' = i + 1
    /\ UNCHANGED <<cfg, df, pc, exec_vars, result_vars>>
    /\ UNCHANGED outer_vars

\* The loop is exhausted: return signals; _execute_trades starts.
GenDone ==
    /\ pc = "signals"
    /\ i >= n_bars
    /\ pc' = "execute"
    /\ k' = 1
    /\ current_position' = None
    /\ available_capital' = cfg.initial_capital
    /\ reentry_count' = 0
    /\ trades' = <<>>
    /\ UNCHANGED <<cfg, df, gen_vars, result_vars>>
    /\ UNCHANGED outer_vars

(***************************************************************************)
(* _execute_trades: one signal per action, then the end-of-data closure.   *)
(***************************************************************************)
signal == signals[k]

\* date_to_index.get(signal.date); -1 stands for a date that is no bar.
date_to_index(d) ==
    IF \E idx \in 0..(n_bars - 1) : Date(idx) = d
    THEN CHOOSE idx \in 0..(n_bars - 1) : Date(idx) = d
    ELSE -1

signal_index == date_to_index(signal.date)

\* signal_index is not None and signal_index + 1 < len(df)
has_next_day == signal_index # -1 /\ signal_index + 1 < n_bars

\* df.iloc[idx]['open'].  The open column is input data that nothing else
\* derives from; the value of a bar is fixed the first time it is read.
OpenChoices(idx) ==
    IF At(df.open, idx) = Unread THEN Opens ELSE {At(df.open, idx)}

\* 'Re-entry' in signal.reasoning
is_reentry_signal(sig) == sig.reasoning = ReentryText

\* Variant of position_capital that does not halve the capital of a re-entry.
position_capital_not_halved(is_reentry) ==
    Rat(available_capital * cfg.position_sizing_percentage, 100)

\* available_capital * (position_sizing_percentage / 100) [* 0.5], as
\* the rational numerator over denominator.
position_capital(is_reentry) ==
    Rat(available_capital * cfg.position_sizing_percentage,
        IF is_reentry THEN 200 ELSE 100)

\* int(position_capital / next_day_open)
SharesFor(is_reentry, next_day_open) ==
    LET pcap == position_capital(is_reentry)
    IN  Trunc(pcap.n, pcap.d * next_day_open)

\* The executor's reading of the SELL reasoning.
ExitReason(reasoning) ==
    IF reasoning = TrailingStopText THEN "Trailing Stop"
    ELSE IF reasoning = TrendBreakText THEN "Trend Break"
    ELSE "MA Signal"

\* Variant of next_day_index that fills on the signal's own bar.
same_day_index == signal_index

\* df.iloc[signal_index + 1]: the bar a signal is filled on.
next_day_index == signal_index + 1

buy_accepted == signal.signal_type = "BUY" /\ current_position = None

sell_accepted == signal.signal_type = "SELL" /\ current_position # None

\* The position dictionary a filled BUY creates.
OpenedPosition(next_day_open, shares, is_reentry, rc) ==
    [entry_date |-> Date(next_day_index),
     entry_price |-> next_day_open,
     entry_signal |-> signal.reasoning,
     shares |-> shares,
     is_reentry |-> is_reentry,
     reentry_count |-> rc]

ExecBuy ==
    /\ buy_accepted
    /\ IF has_next_day
       THEN \E next_day_open \in OpenChoices(next_day_index) :
              LET is_reentry == is_reentry_signal(signal)
                  rc == IF is_reentry THEN reentry_count + 1 ELSE 0
                  shares == SharesFor(is_reentry, next_day_open)
              IN  /\ df' = [df EXCEPT !.open[next_day_index + 1] = next_day_open]
                  /\ reentry_count' = rc
                  /\ IF shares > 0
                     THEN /\ current_position' =
                               Some(OpenedPosition(next_day_open, shares,
                                                   is_reentry, rc))
                          /\ available_capital' =
                               available_capital - shares * next_day_open
                     ELSE UNCHANGED <<current_position, available_capital>>
       ELSE UNCHANGED <<df, reentry_count, current_position, available_capital>>
    /\ UNCHANGED trades

\* Variant of ClosedTrade that dates the exit on the bar of the SELL signal.
ClosedTrade_on_signal_day(pos, next_day_open) ==
    [entry_date |-> pos.entry_date,
     exit_date |-> Date(signal_index),
     entry_price |-> pos.entry_price,
     exit_price |-> next_day_open,
     entry_signal |-> pos.entry_signal,
     exit_signal |-> signal.reasoning,
     shares |-> pos.shares,
     pnl |-> pos.shares * (next_day_open - pos.entry_price),
     duration_days |-> Date(signal_index) - pos.entry_date,
     exit_reason |-> Some(ExitReason(signal.reasoning)),
     is_reentry |-> pos.is_reentry,
     reentry_count |-> pos.reentry_count]

\* The MATrade a filled SELL records for the position pos (without
\* pnl_percent, a ratio derived from the two prices of the record).
ClosedTrade(pos, next_day_open) ==
    [entry_date |-> pos.entry_date,
     exit_date |-> Date(next_day_index),
     entry_price |-> pos.entry_price,
     exit_price |-> next_day_open,
     entry_signal |-> pos.entry_signal,
     exit_signal |-> signal.reasoning,
     shares |-> pos.shares,
     pnl |-> pos.shares * (next_day_open - pos.entry_price),
     duration_days |-> Date(next_day_index) - pos.entry_date,
     exit_reason |-> Some(ExitReason(signal.reasoning)),
     is_reentry |-> pos.is_reentry,
     reentry_count |-> pos.reentry_count]

\* Variant of ExecSell that records the trade but keeps the position open.
ExecSell_keeps_position ==
    /\ ~buy_accepted
    /\ sell_accepted
    /\ IF has_next_day
       THEN \E next_day_open \in OpenChoices(next_day_index) :
              LET pos == Val(current_position)
              IN  /\ df' = [df EXCEPT !.open[next_day_index + 1] = next_day_open]
                  /\ trades' = Append(trades, ClosedTrade(pos, next_day_open))
                  /\ available_capital' =
                       available_capital + pos.shares * next_day_open
                  /\ UNCHANGED current_position
       ELSE UNCHANGED <<df, trades, available_capital, current_position>>
    /\ UNCHANGED reentry_count

\* Variant of ExecSell that credits the cost of the position instead of the
\* proceeds of the sale.
ExecSell_credits_cost ==
    /\ ~buy_accepted
    /\ sell_accepted
    /\ IF has_next_day
       THEN \E next_day_open \in OpenChoices(next_day_index) :
              LET pos == Val(current_position)
              IN  /\ df' = [df EXCEPT !.open[next_day_index + 1] = next_day_open]
                  /\ trades' = Append(trades, ClosedTrade(pos, next_day_open))
                  /\ available_capital' =
                       available_capital + pos.shares * pos.entry_price
                  /\ current_position' = None
       ELSE UNCHANGED <<df, trades, available_capital, current_position>>
    /\ UNCHANGED reentry_count

ExecSell ==
    /\ ~buy_accepted
    /\ sell_accepted
    /\ IF has_next_day
       THEN \E next_day_open \in OpenChoices(next_day_index) :
              LET pos == Val(current_position)
              IN  /\ df' = [df EXCEPT !.open[next_day_index + 1] = next_day_open]
                  /\ trades' = Append(trades, ClosedTrade(pos, next_day_open))
                  /\ available_capital' =
                       available_capital + pos.shares * next_day_open
                  /\ current_position' = None
       ELSE UNCHANGED <<df, trades, available_capital, current_position>>
    /\ UNCHANGED reentry_count

\* Variant of ExecIgnore that pays out a SELL met without a position as if
\* one share had been held.
ExecIgnore_sells_anyway ==
    /\ ~buy_accepted
    /\ ~sell_accepted
    /\ available_capital' =
         IF signal.signal_type = "SELL" THEN available_capital + signal.price
         ELSE available_capital
    /\ UNCHANGED <<df, current_position, reentry_count, trades>>

\* Neither branch of the if/elif takes the signal.
ExecIgnore ==
    /\ ~buy_accepted
    /\ ~sell_accepted
    /\ UNCHANGED <<df, current_position, available_capital, reentry_count, trades>>

\* One iteration of: for signal in signals
ExecStep ==
    /\ pc = "execute"
    /\ k <= Len(signals)
    /\ \/ ExecBuy
       \/ ExecSell
       \/ ExecIgnore
    /\ k' = k + 1
    /\ UNCHANGED <<cfg, pc, gen_vars, result_vars>>
    /\ UNCHANGED outer_vars

\* Variant of FinalTrade that dates the closure on the day after the last bar.
FinalTrade_next_day(pos) ==
    [entry_date |-> pos.entry_date,
     exit_date |-> Date(n_bars - 1) + 1,
     entry_price |-> pos.entry_price,
     exit_price |-> At(df.close, n_bars - 1),
     entry_signal |-> pos.entry_signal,
     exit_signal |-> "End of period - position closed",
     shares |-> pos.shares,
     pnl |-> pos.shares * (At(df.close, n_bars - 1) - pos.entry_price),
     duration_days |-> Date(n_bars - 1) + 1 - pos.entry_date,
     exit_reason |-> None,
     is_reentry |-> FALSE,
     reentry_count |-> 0]

\* The trade that closes a position left open at the end of the data: the
\* MATrade is built without exit_reason, is_reentry and reentry_count,
\* which keep their dataclass defaults.
FinalTrade(pos) ==
    [entry_date |-> pos.entry_date,
     exit_date |-> Date(n_bars - 1),
     entry_price |-> pos.entry_price,
     exit_price |-> At(df.close, n_bars - 1),
     entry_signal |-> pos.entry_signal,
     exit_signal |-> "End of period - position closed",
     shares |-> pos.shares,
     pnl |-> pos.shares * (At(df.close, n_bars - 1) - pos.entry_price),
     duration_days |-> Date(n_bars - 1) - pos.entry_date,
     exit_reason |-> None,
     is_reentry |-> FALSE,
     reentry_count |-> 0]

\* After the loop: "Close any remaining position at the end"; return trades.
\* current_position itself is not reset by the code.
ExecClose ==
    /\ pc = "execute"
    /\ k > Len(signals)
    /\ trades' = IF current_position # None
                 THEN Append(trades, FinalTrade(Val(current_position)))
                 ELSE trades
    /\ pc' = "alerts"
    /\ alert_i' = 0
    /\ alert_triggered' = FALSE
    /\ peak_distance' = FromInt(0)
    /\ alerts' = <<>>
    /\ UNCHANGED <<cfg, df, gen_vars, k, current_position, available_capital,
                   reentry_count, performance_metrics, equity_curve>>
    /\ UNCHANGED outer_vars

(***************************************************************************)
(* _generate_mean_reversion_alerts: one bar of df.iterrows() per action.   *)
(***************************************************************************)
\* Variant of in_trade_dates that fills the set from the entry date to the
\* end of the data for every trade, as the code does for a trade without
\* exit date.
in_trade_dates_to_end(d) ==
    \E t \in 1..Len(trades) : trades[t].entry_date <= d

\* date.date() in trade_dates: the set holds every calendar day from the
\* entry_date to the exit_date of a trade, both included.
in_trade_dates(d) ==
    \E t \in 1..Len(trades) :
        trades[t].entry_date <= d /\ d <= trades[t].exit_date

alert_date == Date(alert_i)
alert_price == At(df.close, alert_i)
alert_ma_21 == At(df.ma_21, alert_i)

\* abs(current_price - ma_21) / ma_21 * 100
distance_percent ==
    RMul(RDiv(RAbs(RSub(FromInt(alert_price), alert_ma_21)), alert_ma_21),
         FromInt(100))

\* current_price > ma_21 and distance_percent >= self.mean_reversion_threshold
beyond_threshold ==
    /\ RLt(alert_ma_21, FromInt(alert_price))
    /\ RLe(FromInt(cfg.mean_reversion_threshold), distance_percent)

\* Variant of below_half_peak that resets as soon as the distance is below
\* the recorded peak.
below_whole_peak ==
    alert_triggered /\ RLt(distance_percent, peak_distance)

\* alert_triggered and distance_percent < (peak_distance * 0.5)
below_half_peak ==
    alert_triggered /\ RLt(distance_percent, RMul(peak_distance, Rat(1, 2)))

MeanReversionAlert ==
    [date |-> alert_date, price |-> alert_price, ma_21 |-> alert_ma_21,
     distance_percent |-> distance_percent]

AlertSkip ==
    /\ isna(alert_ma_21)
    /\ UNCHANGED <<alert_triggered, peak_distance, alerts>>

\* Variant of AlertOutsideTrade that leaves the alert state as it is on a
\* bar outside every trade.
AlertOutsideTrade_keeps_state ==
    /\ ~isna(alert_ma_21)
    /\ ~in_trade_dates(alert_date)
    /\ UNCHANGED <<alert_triggered, peak_distance, alerts>>

AlertOutsideTrade ==
    /\ ~isna(alert_ma_21)
    /\ ~in_trade_dates(alert_date)
    /\ alert_triggered' = FALSE
    /\ peak_distance' = FromInt(0)
    /\ UNCHANGED alerts

AlertInTrade ==
    /\ ~isna(alert_ma_21)
    /\ in_trade_dates(alert_date)
    /\ IF beyond_threshold
       THEN IF ~alert_triggered
            THEN /\ alerts' = Append(alerts, MeanReversionAlert)
                 /\ alert_triggered' = TRUE
                 /\ peak_distance' = distance_percent
            ELSE /\ peak_distance' = RMax(peak_distance, distance_percent)
                 /\ UNCHANGED <<alert_triggered, alerts>>
       ELSE IF below_half_peak
            THEN /\ alert_triggered' = FALSE
                 /\ peak_distance' = FromInt(0)
                 /\ UNCHANGED alerts
            ELSE UNCHANGED <<alert_triggered, peak_distance, alerts>>

\* One iteration of: for date, row in df.iterrows()
AlertStep ==
    /\ pc = "alerts"
    /\ alert_i < n_bars
    /\ \/ AlertSkip
       \/ AlertOutsideTrade
       \/ AlertInTrade
    /\ alert_i' = alert_i + 1
    /\ UNCHANGED <<cfg, df, pc, gen_vars, exec_vars, performance_metrics,
                   equity_curve>>
    /\ UNCHANGED outer_vars

(***************************************************************************)
(* _calculate_performance_metrics.                                         *)
(***************************************************************************)
\* Variant of DrawdownWalk that never raises the peak above its start.
RECURSIVE DrawdownWalk_peak_at_start(_, _)
DrawdownWalk_peak_at_start(ts, n) ==
    IF n = 0 THEN [cumulative_pnl |-> 0, peak |-> 0, max_drawdown |-> 0]
    ELSE LET w == DrawdownWalk_peak_at_start(ts, n - 1)
             cumulative_pnl == w.cumulative_pnl + ts[n].pnl
             drawdown == 0 - cumulative_pnl
         IN  [cumulative_pnl |-> cumulative_pnl,
              peak |-> 0,
              max_drawdown |-> IF drawdown > w.max_drawdown THEN drawdown
                               ELSE w.max_drawdown]

\* cumulative_pnl, peak and max_drawdown after the first n trades of ts.
RECURSIVE DrawdownWalk(_, _)
DrawdownWalk(ts, n) ==
    IF n = 0 THEN [cumulative_pnl |-> 0, peak |-> 0, max_drawdown |-> 0]
    ELSE LET w == DrawdownWalk(ts, n - 1)
             cumulative_pnl == w.cumulative_pnl + ts[n].pnl
             peak == IF cumulative_pnl > w.peak THEN cumulative_pnl ELSE w.peak
             drawdown == peak - cumulative_pnl
         IN  [cumulative_pnl |-> cumulative_pnl,
              peak |-> peak,
              max_drawdown |-> IF drawdown > w.max_drawdown THEN drawdown
                               ELSE w.max_drawdown]

RECURSIVE SumField(_, _, _)
SumField(ts, field, n) ==
    IF n = 0 THEN 0 ELSE SumField(ts, field, n - 1) + ts[n][field]

calculate_performance_metrics(ts) ==
    IF ts = <<>>
    THEN [total_trades |-> 0, winning_trades |-> 0, losing_trades |-> 0,
          win_rate |-> FromInt(0), total_pnl |-> 0,
          total_return_percent |-> FromInt(0),
          avg_trade_duration |-> FromInt(0), max_drawdown |-> 0,
          sharpe_ratio |-> 0]
    ELSE LET total_trades == Len(ts)
             winning_trades == Cardinality({t \in 1..Len(ts) : ts[t].pnl > 0})
             total_pnl == SumField(ts, "pnl", Len(ts))
         IN  [total_trades |-> total_trades,
              winning_trades |-> winning_trades,
              losing_trades |-> Cardinality({t \in 1..Len(ts) : ts[t].pnl < 0}),
              win_rate |-> Rat(winning_trades * 100, total_trades),
              total_pnl |-> total_pnl,
              total_return_percent |-> Rat(total_pnl * 100, cfg.initial_capital),
              avg_trade_duration |->
                  Rat(SumField(ts, "duration_days", Len(ts)), total_trades),
              max_drawdown |-> DrawdownWalk(ts, Len(ts)).max_drawdown,
              sharpe_ratio |-> 0]

\* The alert loop is exhausted: return alerts; run_analysis computes the
\* metrics from the trades as _execute_trades returned them.
Metrics ==
    /\ pc = "alerts"
    /\ alert_i >= n_bars
    /\ performance_metrics' = Some(calculate_performance_metrics(trades))
    /\ pc' = "equity"
    /\ UNCHANGED <<cfg, df, gen_vars, exec_vars, alert_vars, equity_curve>>
    /\ UNCHANGED outer_vars

(***************************************************************************)
(* _generate_equity_curve.                                                 *)
(***************************************************************************)
\* trade_pnl_by_date[d]: the dict keeps the pnl of the last trade whose
\* exit_date is d (every trade has an exit_date and a pnl).
RECURSIVE PnlOn(_, _, _)
PnlOn(ts, d, n) ==
    IF n = 0 THEN None
    ELSE IF ts[n].exit_date = d THEN Some(ts[n].pnl)
    ELSE PnlOn(ts, d, n - 1)

\* Variant of trade_pnl_by_date that keys the mapping by the entry date.
trade_pnl_by_entry_date(ts, d) ==
    LET hits == {t \in 1..Len(ts) : ts[t].entry_date = d}
    IN  IF hits = {} THEN None
        ELSE Some(ts[CHOOSE t \in hits : \A u \in hits : u <= t].pnl)

trade_pnl_by_date(ts, d) == PnlOn(ts, d, Len(ts))

\* The sum of trade_pnl_by_date over the dates of the given bars.
RECURSIVE SumHits(_, _)
SumHits(ts, bars) ==
    IF bars = {} THEN 0
    ELSE LET b == CHOOSE x \in bars : TRUE
         IN  Val(trade_pnl_by_date(ts, Date(b))) + SumHits(ts, bars \ {b})

\* current_equity after the dates of bars 0..idx have been walked: the
\* initial capital and, for each of these dates that is in
\* trade_pnl_by_date, the pnl found there.
EquityAt(ts, idx) ==
    cfg.initial_capital
      + SumHits(ts, {b \in 0..idx : trade_pnl_by_date(ts, Date(b)) # None})

generate_equity_curve(ts) ==
    [b \in 1..n_bars |-> [date |-> Date(b - 1), equity |-> EquityAt(ts, b - 1)]]

EquityCurve ==
    /\ pc = "equity"
    /\ equity_curve' = generate_equity_curve(trades)
    /\ pc' = "sort"
    /\ UNCHANGED <<cfg, df, gen_vars, exec_vars, alert_vars, performance_metrics>>
    /\ UNCHANGED outer_vars

(***************************************************************************)
(* run_analysis: the lists are sorted newest first before they are         *)
(* returned.                                                               *)
(***************************************************************************)
\* list.sort(key=lambda x: x.<field>, reverse=True): a stable sort, elements
\* with equal keys keep their order.
RECURSIVE InsertNewestFirst(_, _, _)
InsertNewestFirst(x, s, field) ==
    IF s = <<>> THEN <<x>>
    ELSE IF Head(s)[field] >= x[field]
         THEN <<Head(s)>> \o InsertNewestFirst(x, Tail(s), field)
         ELSE <<x>> \o s

RECURSIVE SortFirst(_, _, _)
SortFirst(s, field, n) ==
    IF n = 0 THEN <<>>
    ELSE InsertNewestFirst(s[n], SortFirst(s, field, n - 1), field)

sort_newest_first(s, field) == SortFirst(s, field, Len(s))

SortResults ==
    /\ pc = "sort"
    /\ trades' = sort_newest_first(trades, "entry_date")
    /\ signals' = sort_newest_first(signals, "date")
    /\ alerts' = sort_newest_first(alerts, "date")
    /\ pc' = "done"
    /\ UNCHANGED <<cfg, df, i, in_trade, current_trailing_stop,
                   highest_price_since_entry, last_exit_date,
                   gen_reentry_count, k, current_position, available_capital,
                   reentry_count, alert_i, alert_triggered, peak_distance,
                   performance_metrics, equity_curve>>
    /\ UNCHANGED outer_vars

Next ==
    \/ RunAnalysis
    \/ GenStep
    \/ GenDone
    \/ ExecStep
    \/ ExecClose
    \/ AlertStep
    \/ Metrics
    \/ EquityCurve
    \/ SortResults

Spec == Init /\ [][Next]_vars

(***************************************************************************)
(* A caller that runs run_analysis a second time with the same engine      *)
(* configuration on the frame object the first call worked on.             *)
(***************************************************************************)
RerunCloses == {1, 4}

\* MAResults(trades=..., signals=..., mean_reversion_alerts=...,
\* performance_metrics=..., equity_curve=...)
MAResults ==
    [trades |-> trades, signals |-> signals, mean_reversion_alerts |-> alerts,
     performance_metrics |-> performance_metrics,
     equity_curve |-> equity_curve]

\* The first call has returned; the caller keeps its result and calls
\* run_analysis again with the same df.
Rerun ==
    /\ pc = "done"
    /\ run_no = 1
    /\ first_result' = Some(MAResults)
    /\ run_no' = 2
    /\ pc' = "start"
    /\ UNCHANGED <<cfg, df, gen_vars, exec_vars, result_vars, other, opt_vars>>

RerunInit ==
    /\ InitEngine(Configs, {NumBars}, RerunCloses)
    /\ SingleCall
    /\ NoSweep

RerunNext == Next \/ Rerun

RerunSpec == RerunInit /\ [][RerunNext]_vars

(***************************************************************************)
(* Two evaluations of different (fast, slow) pairs over the same frame,    *)
(* interleaved: the second engine's only write to shared state is the      *)
(* assignment of its indicator columns to df.                              *)
(***************************************************************************)
OtherPairs == {<<2, 3>>, <<3, 4>>}

\* The other engine's run_analysis reaches df['ma_21'] = ..., df['ma_50'] =
\* ..., df['atr'] = ... while this engine's second call is under way.
OtherWritesIndicators ==
    /\ run_no = 2
    /\ other # None
    /\ pc \in {"start", "signals", "execute", "alerts"}
    /\ n_bars >= Val(other).ma_50_period
    /\ df' = WithIndicatorsOf(Val(other), df)
    /\ df' # df
    /\ UNCHANGED <<cfg, pc, gen_vars, exec_vars, result_vars, run_no,
                   first_result, other, opt_vars>>

InterleavedInit ==
    /\ InitEngine({c \in Configs : c.ma_type = "sma"}, {NumBars}, RerunCloses)
    /\ NoSweep
    /\ run_no = 1
    /\ first_result = None
    /\ \E pair \in OtherPairs :
          /\ pair # <<cfg.ma_21_period, cfg.ma_50_period>>
          /\ other = Some([cfg EXCEPT !.ma_21_period = pair[1],
                                       !.ma_50_period = pair[2]])

InterleavedNext == Next \/ Rerun \/ OtherWritesIndicators

InterleavedSpec == InterleavedInit /\ [][InterleavedNext]_vars

(***************************************************************************)
(* The long run: 120 daily bars under the constructor's default            *)
(* configuration. Prices and capital are counted in half units, so that    *)
(* the closes 100.0, 100.5, ... are the integers 200, 201, ...; share      *)
(* counts, percentages and the signs of the results are those of the run   *)
(* in whole units.                                                         *)
(***************************************************************************)
LongBars == 120

\* MATradingEngine(): initial_capital=100000, atr_period=14,
\* atr_multiplier=2.0, ma_type='ema', mean_reversion_threshold=10.0,
\* position_sizing_percentage=5.0, periods 21 and 50.
DefaultConfig ==
    [initial_capital |-> 200000, atr_period |-> 14,
     atr_multiplier |-> [n |-> 2, d |-> 1], ma_type |-> "ema",
     ma_21_period |-> 21, ma_50_period |-> 50,
     mean_reversion_threshold |-> 10,
     position_sizing_percentage |-> 5]

\* Closes that rise by 0.5 a bar from 100.0.
RisingCloses == [b \in 1..LongBars |-> 200 + (b - 1)]

\* Closes that fall by 0.5 a bar for the first 60 bars and rise by 1.0 a
\* bar afterwards.
TurningCloses ==
    [b \in 1..LongBars |-> IF b <= 60 THEN 260 - b ELSE 200 + 2 * (b - 60)]

\* Five trading days a week.
LongDays == [b \in 1..LongBars |-> b + 2 * ((b - 1) \div 5)]

\* The closes of FlatBars bars that all close at 100.0.
FlatBars == 60

FlatCloses == [b \in 1..FlatBars |-> 200]

\* A frame of bars that open at the close of the bar before and range half
\* a unit around their close.
LongFrame(closes) ==
    [date  |-> SubSeq(LongDays, 1, Len(closes)),
     open  |-> [b \in 1..Len(closes) |->
                  IF b = 1 THEN closes[1] ELSE closes[b - 1]],
     high  |-> [b \in 1..Len(closes) |-> closes[b] + 1],
     low   |-> [b \in 1..Len(closes) |-> closes[b] - 1],
     close |-> closes,
     ma_21 |-> <<>>, ma_50 |-> <<>>, atr |-> <<>>]

LongInit ==
    /\ cfg = DefaultConfig
    /\ df \in {LongFrame(RisingCloses), LongFrame(TurningCloses),
              LongFrame(FlatCloses)}
    /\ pc = "start"
    /\ NothingRun
    /\ SingleCall
    /\ NoSweep

LongSpec == LongInit /\ [][Next]_vars

(***************************************************************************)
(* MAOptimizer (backend/services/ma_optimizer.py): universal_optimization  *)
(* calls optimize_ma_pairs for every symbol; optimize_ma_pairs tests every *)
(* generated (fast, slow) pair with a new engine on the symbol's frame.    *)
(* Series lengths are scaled down: a frame of MinSweepBars bars stands for *)
(* the 100 bars optimize_ma_pairs asks for.                                *)
(***************************************************************************)
MinSweepBars == 8

TopPairs == 5

Symbols == <<"AAA", "BBB">>

\* MAOptimizer(initial_capital, atr_period, atr_multiplier, ma_type)
OptimizerConfig ==
    [initial_capital |-> 100, atr_period |-> 2,
     atr_multiplier |-> [n |-> 1, d |-> 1], ma_type |-> "sma"]

\* Requests: fast_ma_range, slow_ma_range and min_distance.
FastRanges == {<<1, 2>>, <<6, 6>>}
SlowRanges == {<<2, 5>>, <<5, NumBars + 1>>}
MinDistances == {1, 3}

\* A series of NumBars closes that repeats its last close when the pattern
\* is shorter.
Extend(pattern) ==
    [b \in 1..NumBars |->
        IF b <= Len(pattern) THEN pattern[b] ELSE pattern[Len(pattern)]]

\* What get_stock_data can return for a symbol: None, a frame that is too
\* short, or a frame of NumBars bars.
SweepSeries ==
    { Extend(<<1, 1, 1, 1, 1, 4, 4, 4>>),
      Extend(<<1, 1, 4, 1, 1, 4, 4, 4>>),
      Extend(<<1, 1, 1, 4, 4, 4, 1, 1>>) }

StockData ==
    {None} \cup {Some([b \in 1..ShortBars |-> 1])}
           \cup {Some(c) : c \in SweepSeries}

symbol == Symbols[sym_index]

\* _generate_ma_pairs: for fast_ma in range(fast_range[0], fast_range[1] + 1):
\* for slow_ma in range(slow_range[0], slow_range[1] + 1), the pairs from
\* (fast_ma, slow_ma) on in the order the loops visit them.
RECURSIVE PairsFrom(_, _, _, _, _)
PairsFrom(fast_ma, slow_ma, fast_range, slow_range, min_distance) ==
    IF fast_ma > fast_range[2] THEN <<>>
    ELSE IF slow_ma > slow_range[2]
         THEN PairsFrom(fast_ma + 1, slow_range[1], fast_range, slow_range,
                        min_distance)
         ELSE (IF slow_ma - fast_ma >= min_distance
               THEN <<<<fast_ma, slow_ma>>>> ELSE <<>>)
              \o PairsFrom(fast_ma, slow_ma + 1, fast_range, slow_range,
                           min_distance)

\* Variant of generate_ma_pairs whose ranges leave out their upper ends.
generate_ma_pairs_exclusive(fast_range, slow_range, min_distance) ==
    PairsFrom(fast_range[1], slow_range[1],
              <<fast_range[1], fast_range[2] - 1>>,
              <<slow_range[1], slow_range[2] - 1>>, min_distance)

generate_ma_pairs(fast_range, slow_range, min_distance) ==
    PairsFrom(fast_range[1], slow_range[1], fast_range, slow_range,
              min_distance)

\* MATradingEngine(initial_capital=..., atr_period=..., atr_multiplier=...,
\* ma_type=..., custom_fast_ma=fast_ma, custom_slow_ma=slow_ma): the periods
\* are the defaults 21 and 50 unless both custom values are truthy; the
\* threshold and the sizing percentage are the constructor's defaults.
EngineFor(fast_ma, slow_ma) ==
    [initial_capital |-> OptimizerConfig.initial_capital,
     atr_period |-> OptimizerConfig.atr_period,
     atr_multiplier |-> OptimizerConfig.atr_multiplier,
     ma_type |-> OptimizerConfig.ma_type,
     ma_21_period |-> IF fast_ma # 0 /\ slow_ma # 0 THEN fast_ma ELSE 21,
     ma_50_period |-> IF fast_ma # 0 /\ slow_ma # 0 THEN slow_ma ELSE 50,
     mean_reversion_threshold |-> 10,
     position_sizing_percentage |-> 5]

\* _calculate_max_drawdown(equity_curve): peak and max_dd after the first n
\* points.
RECURSIVE EquityDrawdown(_, _)
EquityDrawdown(curve, n) ==
    IF n = 0 THEN [peak |-> curve[1].equity, max_dd |-> FromInt(0)]
    ELSE LET w == EquityDrawdown(curve, n - 1)
             value == curve[n].equity
             peak == IF value > w.peak THEN value ELSE w.peak
             drawdown == Rat(peak - value, peak)
         IN  [peak |-> peak, max_dd |-> RMax(w.max_dd, drawdown)]

calculate_max_drawdown(curve) ==
    IF Len(curve) < 2 THEN FromInt(0)
    ELSE RMul(EquityDrawdown(curve, Len(curve)).max_dd, FromInt(100))

RECURSIVE SumWhere(_, _, _)
SumWhere(ts, n, positive) ==
    IF n = 0 THEN 0
    ELSE SumWhere(ts, n - 1, positive)
           + (IF (positive /\ ts[n].pnl > 0) \/ (~positive /\ ts[n].pnl < 0)
              THEN ts[n].pnl ELSE 0)

\* _calculate_profit_factor: float('inf') is [n |-> 1, d |-> 0].
calculate_profit_factor(ts) ==
    LET gross_profit == SumWhere(ts, Len(ts), TRUE)
        gross_loss == Abs(SumWhere(ts, Len(ts), FALSE))
    IN  IF ts = <<>> THEN FromInt(0)
        ELSE IF gross_loss = 0
             THEN (IF gross_profit > 0 THEN [n |-> 1, d |-> 0] ELSE FromInt(0))
             ELSE Rat(gross_profit, gross_loss)

\* np.mean([t.duration_days for t in results.trades if t.duration_days]):
\* NaN when no trade has a non-zero duration.
mean_duration(ts) ==
    LET kept == {t \in 1..Len(ts) : ts[t].duration_days # 0}
    IN  IF kept = {} THEN NaN
        ELSE Rat(SumField(ts, "duration_days", Len(ts)), Cardinality(kept))

\* The MAOptimizationResult _test_ma_pair builds from the finished run (the
\* Sharpe ratio, a quotient by a standard deviation, is left out).
MAOptimizationResult ==
    [fast_ma |-> cfg.ma_21_period,
     slow_ma |-> cfg.ma_50_period,
     ma_distance |-> cfg.ma_50_period - cfg.ma_21_period,
     total_return_percent |-> Val(performance_metrics).total_return_percent,
     max_drawdown |-> calculate_max_drawdown(equity_curve),
     win_rate |-> Val(performance_metrics).win_rate,
     profit_factor |-> calculate_profit_factor(trades),
     total_trades |-> Val(performance_metrics).total_trades,
     avg_trade_duration |-> mean_duration(trades),
     symbol |-> symbol]

\* results.sort(key=lambda x: x.total_return_percent, reverse=True): stable,
\* results with equal returns keep their order.
RECURSIVE InsertByReturn(_, _)
InsertByReturn(x, s) ==
    IF s = <<>> THEN <<x>>
    ELSE IF RLe(x.total_return_percent, Head(s).total_return_percent)
         THEN <<Head(s)>> \o InsertByReturn(x, Tail(s))
         ELSE <<x>> \o s

RECURSIVE SortFirstByReturn(_, _)
SortFirstByReturn(s, n) ==
    IF n = 0 THEN <<>>
    ELSE InsertByReturn(s[n], SortFirstByReturn(s, n - 1))

\* Variant of sort_by_return that sorts without reverse=True.
sort_by_return_ascending(s) ==
    [n \in 1..Len(s) |-> SortFirstByReturn(s, Len(s))[Len(s) + 1 - n]]

sort_by_return(s) == SortFirstByReturn(s, Len(s))

\* OptimizationSummary(symbol=..., best_pair=results[0] if results else None,
\* top_5_pairs=results[:5], all_results=results, ...)
OptimizationSummary(sorted) ==
    [symbol |-> symbol,
     best_pair |-> IF sorted # <<>> THEN Some(sorted[1]) ELSE None,
     top_5_pairs |-> SubSeq(sorted, 1,
                            IF Len(sorted) < TopPairs THEN Len(sorted)
                            ELSE TopPairs),
     all_results |-> sorted,
     parameters_used |-> Val(sweep)]

\* Variant of OptimizeMaPairs in which the ValueError ends the loop over the
\* symbols.
OptimizeMaPairs_error_ends_loop ==
    /\ opt_pc = "symbols"
    /\ sym_index <= Len(Symbols)
    /\ LET data == stock_data[sym_index]
       IN  IF data = None \/ Len(Val(data)) < MinSweepBars
           THEN /\ status' = [status EXCEPT ![sym_index] = "insufficient"]
                /\ sym_index' = Len(Symbols) + 1
                /\ UNCHANGED <<df, opt_pc, ma_pairs, pair_index, results,
                               evaluations, summary>>
           ELSE /\ df' = Frame(Val(data), 0)
                /\ ma_pairs' = generate_ma_pairs(Val(sweep).fast_ma_range,
                                                 Val(sweep).slow_ma_range,
                                                 Val(sweep).min_distance)
                /\ pair_index' = 1
                /\ results' = <<>>
                /\ evaluations' = <<>>
                /\ summary' = None
                /\ opt_pc' = "sweep"
                /\ UNCHANGED <<status, sym_index>>
    /\ UNCHANGED <<cfg, pc, gen_vars, exec_vars, result_vars, caller_vars,
                   stock_data, sweep, universal_results, pair_frequency>>

\* universal_optimization: the next symbol; optimize_ma_pairs fetches its
\* data, raises ValueError on None or a short frame (the symbol is logged
\* and skipped), and otherwise generates the pairs.
OptimizeMaPairs ==
    /\ opt_pc = "symbols"
    /\ sym_index <= Len(Symbols)
    /\ LET data == stock_data[sym_index]
       IN  IF data = None \/ Len(Val(data)) < MinSweepBars
           THEN /\ status' = [status EXCEPT ![sym_index] = "insufficient"]
                /\ sym_index' = sym_index + 1
                /\ UNCHANGED <<df, opt_pc, ma_pairs, pair_index, results,
                               evaluations, summary>>
           ELSE /\ df' = Frame(Val(data), 0)
                /\ ma_pairs' = generate_ma_pairs(Val(sweep).fast_ma_range,
                                                 Val(sweep).slow_ma_range,
                                                 Val(sweep).min_distance)
                /\ pair_index' = 1
                /\ results' = <<>>
                /\ evaluations' = <<>>
                /\ summary' = None
                /\ opt_pc' = "sweep"
                /\ UNCHANGED <<status, sym_index>>
    /\ UNCHANGED <<cfg, pc, gen_vars, exec_vars, result_vars, caller_vars,
                   stock_data, sweep, universal_results, pair_frequency>>

\* _test_ma_pair: a new engine for the pair, and the call of run_analysis.
TestMaPair ==
    /\ opt_pc = "sweep"
    /\ pair_index <= Len(ma_pairs)
    /\ cfg' = EngineFor(ma_pairs[pair_index][1], ma_pairs[pair_index][2])
    /\ pc' = "start"
    /\ opt_pc' = "running"
    /\ UNCHANGED <<df, gen_vars, exec_vars, result_vars, caller_vars,
                   stock_data, sweep, sym_index, ma_pairs, pair_index,
                   results, evaluations, summary, status, universal_results,
                   pair_frequency>>

\* Variant of TestMaPairReturns in which a raised exception ends the loop
\* over the pairs.
TestMaPairReturns_raise_ends_sweep ==
    /\ opt_pc = "running"
    /\ pc \in {"done", "error"}
    /\ LET found == pc = "done" /\ trades # <<>>
                      /\ performance_metrics # None
       IN  /\ results' = IF found THEN Append(results, MAOptimizationResult)
                         ELSE results
           /\ evaluations' =
                Append(evaluations,
                       [pair |-> ma_pairs[pair_index],
                        raised |-> pc = "error",
                        trades |-> IF pc = "error" THEN 0 ELSE Len(trades)])
    /\ pair_index' = IF pc = "error" THEN Len(ma_pairs) + 1 ELSE pair_index + 1
    /\ opt_pc' = "sweep"
    /\ pc' = "idle"
    /\ UNCHANGED <<cfg, df, gen_vars, exec_vars, result_vars, caller_vars,
                   stock_data, sweep, sym_index, ma_pairs, summary, status,
                   universal_results, pair_frequency>>

\* run_analysis has returned or raised: _test_ma_pair returns None when it
\* raised (the exception is caught and logged), when there are no trades or
\* no metrics, and the result otherwise; optimize_ma_pairs appends what is
\* not None and goes on with the next pair. evaluations records, for each
\* call, the pair, whether run_analysis raised and the number of trades.
TestMaPairReturns ==
    /\ opt_pc = "running"
    /\ pc \in {"done", "error"}
    /\ LET found == pc = "done" /\ trades # <<>>
                      /\ performance_metrics # None
       IN  /\ results' = IF found THEN Append(results, MAOptimizationResult)
                         ELSE results
           /\ evaluations' =
                Append(evaluations,
                       [pair |-> ma_pairs[pair_index],
                        raised |-> pc = "error",
                        trades |-> IF pc = "error" THEN 0 ELSE Len(trades)])
    /\ pair_index' = pair_index + 1
    /\ opt_pc' = "sweep"
    /\ pc' = "idle"
    /\ UNCHANGED <<cfg, df, gen_vars, exec_vars, result_vars, caller_vars,
                   stock_data, sweep, sym_index, ma_pairs, summary, status,
                   universal_results, pair_frequency>>

\* The pairs are exhausted: sort, build the summary, log the best pair
\* (summary.best_pair.fast_ma raises AttributeError when best_pair is None;
\* universal_optimization logs it and skips the symbol) and return.
Summarize ==
    /\ opt_pc = "sweep"
    /\ pair_index > Len(ma_pairs)
    /\ LET built == OptimizationSummary(sort_by_return(results))
       IN  /\ summary' = Some(built)
           /\ IF built.best_pair = None
              THEN /\ status' = [status EXCEPT ![sym_index] = "raised"]
                   /\ UNCHANGED universal_results
              ELSE /\ status' = [status EXCEPT ![sym_index] = "returned"]
                   /\ universal_results' =
                        [universal_results EXCEPT ![sym_index] = Some(built)]
    /\ sym_index' = sym_index + 1
    /\ opt_pc' = "symbols"
    /\ UNCHANGED <<cfg, df, pc, gen_vars, exec_vars, result_vars, caller_vars,
                   stock_data, sweep, ma_pairs, pair_index, results,
                   evaluations, pair_frequency>>

\* The summaries universal_optimization returns.
Returned == {n \in 1..Len(Symbols) : universal_results[n] # None}

\* The route: all_best_pairs = [summary.best_pair for summary in
\* results.values() if summary.best_pair]; pair_frequency[pair_key]['count'].
BestPairKeys ==
    {<<Val(Val(universal_results[n]).best_pair).fast_ma,
       Val(Val(universal_results[n]).best_pair).slow_ma>> :
        n \in {m \in Returned : Val(universal_results[m]).best_pair # None}}

CountOf(key) ==
    Cardinality({n \in Returned :
        /\ Val(universal_results[n]).best_pair # None
        /\ <<Val(Val(universal_results[n]).best_pair).fast_ma,
             Val(Val(universal_results[n]).best_pair).slow_ma>> = key})

\* universal_optimization returns; the route counts the best pairs.
UniversalReturns ==
    /\ opt_pc = "symbols"
    /\ sym_index > Len(Symbols)
    /\ pair_frequency' = [key \in BestPairKeys |-> CountOf(key)]
    /\ opt_pc' = "finished"
    /\ UNCHANGED <<cfg, df, pc, gen_vars, exec_vars, result_vars, caller_vars,
                   stock_data, sweep, sym_index, ma_pairs, pair_index,
                   results, evaluations, summary, status, universal_results>>

OptInit ==
    /\ cfg = EngineFor(0, 0)
    /\ df = Frame(<<>>, 0)
    /\ pc = "idle"
    /\ NothingRun
    /\ SingleCall
    /\ opt_pc = "symbols"
    /\ stock_data \in [1..Len(Symbols) -> StockData]
    /\ \E fr \in FastRanges, sr \in SlowRanges, md \in MinDistances :
          sweep = Some([fast_ma_range |-> fr, slow_ma_range |-> sr,
                        min_distance |-> md])
    /\ sym_index = 1
    /\ ma_pairs = <<>>
    /\ pair_index = 1
    /\ results = <<>>
    /\ evaluations = <<>>
    /\ summary = None
    /\ status = [n \in 1..Len(Symbols) |-> "pending"]
    /\ universal_results = [n \in 1..Len(Symbols) |-> None]
    /\ pair_frequency = <<>>

OptNext ==
    \/ OptimizeMaPairs
    \/ TestMaPair
    \/ Next
    \/ TestMaPairReturns
    \/ Summarize
    \/ UniversalReturns

OptSpec == OptInit /\ [][OptNext]_vars

(***************************************************************************)
(* Properties.                                                             *)
(***************************************************************************)
\* An iteration of the generator's loop / of the executor's loop is taken.
GenStepTaken == pc = "signals" /\ i' = i + 1

ExecStepTaken == pc = "execute" /\ k' = k + 1

\* The signal appended by the step, if any.
Emitted == Len(signals') = Len(signals) + 1

\* C1: the signal list of _generate_signals, in generation order (before
\* run_analysis sorts it newest first), starts with a BUY and strictly
\* alternates BUY, SELL, BUY, ...: no two consecutive signals have the same
\* type.
SignalsAlternate ==
    pc # "done" =>
        \A j \in 1..Len(signals) :
            signals[j].signal_type = IF j % 2 = 1 THEN "BUY" ELSE "SELL"

\* A run whose generator emitted a BUY, a SELL and a BUY again.
SignalsAlternateWitness ==
    pc = "execute" /\ Len(signals) >= 3

\* C2: the executor holds zero or one position: an open position is never
\* replaced or enlarged, a position is opened only by a BUY signal met while
\* flat, and a trade is recorded only by a SELL signal met while a position
\* is open, which closes that position.
SinglePosition ==
    [][ExecStepTaken =>
          /\ (current_position # None /\ current_position' # None)
                => UNCHANGED <<current_position, available_capital, trades>>
          /\ (current_position = None /\ current_position' # None)
                => signal.signal_type = "BUY" /\ UNCHANGED trades
          /\ (trades' # trades)
                => /\ signal.signal_type = "SELL"
                   /\ current_position # None
                   /\ current_position' = None
                   /\ Len(trades') = Len(trades) + 1
          /\ (signal.signal_type = "BUY" /\ current_position # None)
                => UNCHANGED <<current_position, available_capital, trades>>
          /\ (signal.signal_type = "SELL" /\ current_position = None)
                => UNCHANGED <<current_position, available_capital, trades>>
       ]_vars

\* A second position is open after the first one was closed.
SinglePositionWitness ==
    pc = "execute" /\ current_position # None /\ Len(trades) >= 1

\* The close of bar i crosses below the fast average (exit rule 1).
CrossesBelowFast ==
    /\ RLt(FromInt(At(df.close, i)), At(df.ma_21, i))
    /\ RLe(At(df.ma_21, i - 1), FromInt(At(df.close, i - 1)))

\* C3: in a position, on a processed bar after the entry bar whose close
\* did not cross below the fast average and is below the trailing stop (the
\* stop before and after this bar's update), a SELL with the trailing-stop
\* reason is emitted and the generator is flat again.
TrailingStopSells ==
    [][(/\ GenStepTaken
        /\ in_trade
        /\ ~indicators_missing
        /\ ~CrossesBelowFast
        /\ current_trailing_stop # None
        /\ RLt(FromInt(At(df.close, i)), Val(current_trailing_stop))
        /\ RLt(FromInt(At(df.close, i)), Val(updated_stop)))
          => /\ Emitted
             /\ signals'[Len(signals')].signal_type = "SELL"
             /\ signals'[Len(signals')].reasoning = TrailingStopText
             /\ ~in_trade'
       ]_vars

\* C4: between a BUY and the next SELL the trailing stop never decreases
\* from one bar to the next, and equals max(previous stop, highest close
\* since entry - ATR * multiplier).
TrailingStopRatchets ==
    [][(GenStepTaken /\ in_trade /\ in_trade')
          => /\ RLe(Val(current_trailing_stop), Val(current_trailing_stop'))
             /\ REq(Val(current_trailing_stop'),
                    RMax(Val(current_trailing_stop),
                         RSub(FromInt(Val(highest_price_since_entry')),
                              RMul(At(df.atr, i), cfg.atr_multiplier))))
       ]_vars

\* C5: a position opened from a BUY signal of bar b has the date and the
\* open of bar b + 1 as entry date and price, a trade closed by a SELL signal
\* of bar b has the date and the open of bar b + 1 as exit date and price,
\* and a signal of the last bar opens and closes nothing.
FillsAtNextOpen ==
    [][ExecStepTaken =>
          \E b \in 0..(n_bars - 1) :
             /\ Date(b) = signal.date
             /\ (current_position = None /\ current_position' # None)
                   => /\ b + 1 < n_bars
                      /\ Val(current_position').entry_date = Date(b + 1)
                      /\ Val(current_position').entry_price = At(df'.open, b + 1)
                      /\ At(df'.open, b + 1) \in Opens
             /\ (trades' # trades)
                   => /\ b + 1 < n_bars
                      /\ trades'[Len(trades')].exit_date = Date(b + 1)
                      /\ trades'[Len(trades')].exit_price = At(df'.open, b + 1)
                      /\ At(df'.open, b + 1) \in Opens
             /\ (b = n_bars - 1)
                   => UNCHANGED <<current_position, available_capital, trades>>
       ]_vars

\* A trade was closed by a SELL signal and the last signal of the run, made
\* on the last bar, has been dropped.
FillsAtNextOpenWitness ==
    /\ pc = "execute"
    /\ k > Len(signals)
    /\ Len(trades) >= 1
    /\ signals[Len(signals)].date = Date(n_bars - 1)

\* The closure of the executor after its last signal.
ExecCloseTaken == pc = "execute" /\ pc' = "alerts"

\* C6: a position still open after the last signal is closed by exactly one
\* more trade, on the last bar at that bar's close, and the exit reason of
\* that trade is the end-of-period one.
ForcedClosure ==
    [][(ExecCloseTaken /\ current_position # None)
          => /\ Len(trades') = Len(trades) + 1
             /\ SubSeq(trades', 1, Len(trades)) = trades
             /\ trades'[Len(trades')].entry_date = Val(current_position).entry_date
             /\ trades'[Len(trades')].shares = Val(current_position).shares
             /\ trades'[Len(trades')].exit_date = Date(n_bars - 1)
             /\ trades'[Len(trades')].exit_price = At(df.close, n_bars - 1)
             /\ \E r \in {"END_OF_PERIOD", "End of Period", "End of period"} :
                   trades'[Len(trades')].exit_reason = Some(r)
       ]_vars

\* C7: available_capital is never negative after a step of the executor,
\* and the cost of an opened position, shares * entry_price, is at most the
\* capital allocated to it: available_capital * position_sizing_percentage
\* / 100, halved for a re-entry.
CapitalNeverNegative ==
    [][ExecStepTaken =>
          /\ available_capital' >= 0
          /\ (current_position = None /\ current_position' # None)
                => Val(current_position').shares * Val(current_position').entry_price
                     * (IF Val(current_position').is_reentry THEN 200 ELSE 100)
                   <= available_capital * cfg.position_sizing_percentage
       ]_vars

\* The sum of pnl over the first n trades of ts.
RECURSIVE SumPnl(_, _)
SumPnl(ts, n) == IF n = 0 THEN 0 ELSE SumPnl(ts, n - 1) + ts[n].pnl

\* C8: the last point of the equity curve is initial_capital plus the sum
\* of pnl over all trades of the run, closed by a signal or at the end.
FinalEquityIsRealizedPnl ==
    pc = "done" =>
        equity_curve[Len(equity_curve)].equity
          = cfg.initial_capital + SumPnl(trades, Len(trades))

\* A finished run with a trade closed by a signal and a trade closed at the
\* end of the data, both with a profit or a loss.
FinalEquityWitness ==
    /\ pc = "done"
    /\ \E a, b \in 1..Len(trades) :
          /\ trades[a].exit_signal = "End of period - position closed"
          /\ trades[a].pnl # 0
          /\ trades[b].exit_reason # None
          /\ trades[b].pnl # 0

\* C9: when the executor is flat, available_capital is initial_capital
\* plus the pnl of the trades closed so far; while a position is open it is
\* that amount minus shares * entry_price, and a step that leaves the
\* position open leaves available_capital unchanged.
CapitalIsRealized ==
    [][(pc' = "execute") =>
          /\ available_capital'
               = cfg.initial_capital + SumPnl(trades', Len(trades'))
                 - (IF current_position' = None THEN 0
                    ELSE Val(current_position').shares
                           * Val(current_position').entry_price)
          /\ (ExecStepTaken /\ current_position # None /\ current_position' # None)
                => available_capital' = available_capital
       ]_vars

\* A position is open after an earlier trade was closed with a profit or a
\* loss.
CapitalIsRealizedWitness ==
    /\ pc = "execute"
    /\ current_position # None
    /\ Len(trades) >= 1
    /\ trades[1].pnl # 0

RECURSIVE ReentriesSincePrimary(_, _)
ReentriesSincePrimary(ss, n) ==
    IF n = 0 \/ ss[n].reasoning = PrimaryEntryText THEN 0
    ELSE ReentriesSincePrimary(ss, n - 1)
           + (IF ss[n].reasoning = ReentryText THEN 1 ELSE 0)

TrendBreakSells ==
    [][(/\ GenStepTaken
        /\ in_trade
        /\ ~indicators_missing
        /\ ~CrossesBelowFast
        /\ ~RLt(FromInt(At(df.close, i)), Val(current_trailing_stop))
        /\ ~RLt(FromInt(At(df.close, i)), Val(updated_stop))
        /\ RLt(FromInt(At(df.close, i)), At(df.ma_50, i)))
          => /\ Emitted
             /\ signals'[Len(signals')].signal_type = "SELL"
             /\ signals'[Len(signals')].reasoning = TrendBreakText
             /\ ~in_trade'
       ]_vars

\* The close of bar b crosses below the fast average.
CrossesBelowFastAt(b) ==
    /\ RLt(FromInt(At(df.close, b)), At(df.ma_21, b))
    /\ RLe(At(df.ma_21, b - 1), FromInt(At(df.close, b - 1)))

\* The exit rule that fires on bar b for the trailing stop stop, under the
\* priority MA cross-down > trailing stop > trend break.
RuleFiredAt(b, stop) ==
    IF CrossesBelowFastAt(b) THEN "MA Signal"
    ELSE IF RLt(FromInt(At(df.close, b)), stop) THEN "Trailing Stop"
    ELSE IF RLt(FromInt(At(df.close, b)), At(df.ma_50, b)) THEN "Trend Break"
    ELSE "none"

\* C13: the exit_reason of a trade closed by a SELL signal names the exit
\* rule that fired on the signal's bar under the priority MA cross-down >
\* trailing stop > trend break; a cross below the fast average with the
\* close also below the stop or the slow average is an MA-signal exit.
ExitReasonPriority ==
    [][(ExecStepTaken /\ trades' # trades) =>
          \E b \in 1..(n_bars - 1) :
             /\ Date(b) = signal.date
             /\ trades'[Len(trades')].exit_reason
                  = Some(RuleFiredAt(b, Val(signal.trailing_stop)))
       ]_vars

\* A trade was closed as an MA-signal exit by a SELL on whose bar the close
\* was also below the trailing stop.
ExitReasonPriorityWitness ==
    /\ pc = "execute"
    /\ k > 1
    /\ Len(trades) >= 1
    /\ signals[k - 1].signal_type = "SELL"
    /\ trades[Len(trades)].exit_signal = signals[k - 1].reasoning
    /\ trades[Len(trades)].exit_reason = Some("MA Signal")
    /\ RLt(FromInt(signals[k - 1].price), Val(signals[k - 1].trailing_stop))

\* C14: on a fillable BUY while flat the allocated capital is
\* available_capital * position_sizing_percentage / 100, halved for a
\* re-entry, and shares = floor(allocated / next bar's open); with shares =
\* 0 no position is opened, available_capital is unchanged and no trade is
\* recorded (every recorded trade has at least one share).
SizingRule ==
    [][ExecStepTaken =>
          /\ \A t \in 1..Len(trades') : trades'[t].shares >= 1
          /\ (signal.signal_type = "BUY" /\ current_position = None)
                => \A b \in 0..(n_bars - 2) :
                      Date(b) = signal.date =>
                        LET fill == At(df'.open, b + 1)
                            halves == IF signal.reasoning = ReentryText
                                      THEN 2 ELSE 1
                            shares ==
                              (available_capital * cfg.position_sizing_percentage)
                                \div (100 * halves * fill)
                        IN  /\ fill \in Opens
                            /\ UNCHANGED trades
                            /\ IF shares > 0
                               THEN /\ current_position' # None
                                    /\ Val(current_position').shares = shares
                                    /\ available_capital'
                                         = available_capital - shares * fill
                               ELSE UNCHANGED <<current_position,
                                                available_capital>>
       ]_vars

\* A fillable re-entry BUY met while flat bought no share: the next bar's
\* open was read, no position is open and the capital is what it was.
SizingWitness ==
    /\ pc = "execute"
    /\ k > 1
    /\ signals[k - 1].reasoning = ReentryText
    /\ current_position = None
    /\ Len(trades) >= 1
    /\ \E b \in 0..(n_bars - 2) :
          Date(b) = signals[k - 1].date /\ At(df.open, b + 1) # Unread
    /\ available_capital = cfg.initial_capital + SumPnl(trades, Len(trades))

\* The distance of the close of bar b from the fast average, in percent.
DistanceAt(b) ==
    RMul(RDiv(RAbs(RSub(FromInt(At(df.close, b)), At(df.ma_21, b))),
              At(df.ma_21, b)),
         FromInt(100))

InWindow(d) ==
    \E t \in 1..Len(trades) :
        trades[t].entry_date <= d /\ d <= trades[t].exit_date

AlertConditionAt(b) ==
    /\ ~isna(At(df.ma_21, b))
    /\ RLt(At(df.ma_21, b), FromInt(At(df.close, b)))
    /\ RLe(FromInt(cfg.mean_reversion_threshold), DistanceAt(b))

\* C15: every mean-reversion alert is dated on a bar inside the window
\* [entry_date, exit_date] of some trade, and on that bar the close is above
\* the fast average by at least the configured threshold percentage.
AlertsInsideTrades ==
    \A a \in 1..Len(alerts) :
        /\ InWindow(alerts[a].date)
        /\ \E b \in 0..(n_bars - 1) :
              /\ Date(b) = alerts[a].date
              /\ AlertConditionAt(b)
              /\ alerts[a].price = At(df.close, b)
              /\ alerts[a].ma_21 = At(df.ma_21, b)
              /\ alerts[a].distance_percent = DistanceAt(b)

\* An alert was emitted, and a bar outside every trade window that met the
\* alert condition was passed without one.
AlertsInsideTradesWitness ==
    /\ pc = "alerts"
    /\ Len(alerts) >= 1
    /\ \E b \in 0..(alert_i - 1) :
          /\ AlertConditionAt(b)
          /\ ~InWindow(Date(b))
          /\ \A a \in 1..Len(alerts) : alerts[a].date # Date(b)

\* C16: while the detector is armed no alert is emitted and the recorded
\* peak does not decrease; it is disarmed only by a bar outside every trade
\* window or by an in-window bar whose distance is below half the recorded
\* peak, so two alerts with no out-of-window bar between them are separated
\* by such a bar.
AlertHysteresis ==
    [][(pc = "alerts" /\ alert_triggered) =>
          /\ alerts' = alerts
          /\ alert_triggered' => RLe(peak_distance, peak_distance')
          /\ ~alert_triggered' =>
                /\ alert_i' = alert_i + 1
                /\ ~isna(alert_ma_21)
                /\ \/ ~InWindow(alert_date)
                   \/ RLt(DistanceAt(alert_i), RMul(peak_distance, Rat(1, 2)))
       ]_vars

\* Two alerts were emitted with every bar between them inside a trade
\* window.
AlertHysteresisWitness ==
    /\ pc = "alerts"
    /\ Len(alerts) >= 2
    /\ \A b \in 0..(n_bars - 1) :
          (alerts[1].date < Date(b) /\ Date(b) < alerts[2].date)
             => InWindow(Date(b))

OutsideWindowResets ==
    [][(pc = "alerts" /\ alert_i' = alert_i + 1) =>
          /\ (~isna(alert_ma_21) /\ ~InWindow(alert_date))
                => (~alert_triggered' /\ peak_distance' = FromInt(0))
          /\ ~alert_triggered => peak_distance = FromInt(0)
          /\ (~alert_triggered /\ InWindow(alert_date)
                /\ ~AlertConditionAt(alert_i))
                => (~alert_triggered' /\ alerts' = alerts)
          /\ (~alert_triggered /\ InWindow(alert_date)
                /\ AlertConditionAt(alert_i))
                => /\ alert_triggered'
                   /\ Len(alerts') = Len(alerts) + 1
                   /\ Last(alerts').date = alert_date
       ]_vars

\* An alert armed the detector inside a trade and the detector stayed armed
\* until the trade's exit; the bar just passed lies outside every window and
\* left the detector disarmed.  Before the alert, a bar outside every window
\* had been passed, and the alert came on the first qualifying bar after it.
OutsideWindowResetsWitness ==
    /\ pc = "alerts"
    /\ alert_i >= 1
    /\ ~isna(At(df.ma_21, alert_i - 1))
    /\ ~InWindow(Date(alert_i - 1))
    /\ ~alert_triggered
    /\ \E a \in 1..Len(alerts) : \E b \in 0..(alert_i - 2) :
          /\ Date(b) = alerts[a].date
          /\ b >= 1
          /\ ~isna(At(df.ma_21, b - 1))
          /\ ~InWindow(Date(b - 1))
          /\ \A c \in (b + 1)..(alert_i - 2) :
                /\ InWindow(Date(c))
                /\ RLe(DistanceAt(c), DistanceAt(b))
                /\ RLe(RMul(DistanceAt(b), Rat(1, 2)), DistanceAt(c))

\* C19: the equity curve has one point per bar of the price series, in
\* ascending date order; the equity starts from initial_capital, rises by a
\* trade's pnl at the date the trade exits and is unchanged from the
\* previous point at every other date.
EquityCurveSteps ==
    pc \in {"sort", "done"} =>
        /\ Len(equity_curve) = n_bars
        /\ \A b \in 1..n_bars :
              LET point == equity_curve[b]
                  before == IF b = 1 THEN cfg.initial_capital
                            ELSE equity_curve[b - 1].equity
                  exits == {t \in 1..Len(trades) :
                              trades[t].exit_date = point.date}
              IN  /\ point.date = At(df.date, b - 1)
                  /\ b > 1 => equity_curve[b - 1].date < point.date
                  /\ exits = {} => point.equity = before
                  /\ \A t \in exits : point.equity = before + trades[t].pnl

\* The curve of a run with two trades moves at both exit dates and nowhere
\* else.
EquityCurveWitness ==
    /\ pc = "sort"
    /\ Len(trades) = 2
    /\ trades[1].pnl # 0
    /\ trades[2].pnl # 0
    /\ Cardinality({b \in 2..n_bars :
                      equity_curve[b].equity # equity_curve[b - 1].equity}) = 2
    /\ equity_curve[1].equity = cfg.initial_capital

\* The realized pnl of the trades entered on or before day d.
RECURSIVE PnlUntil(_, _)
PnlUntil(d, n) ==
    IF n = 0 THEN 0
    ELSE PnlUntil(d, n - 1)
           + (IF trades[n].entry_date <= d THEN trades[n].pnl ELSE 0)

SetMax(S) == CHOOSE x \in S : \A y \in S : y <= x

EntryDates == {trades[t].entry_date : t \in 1..Len(trades)}

CumulativeAt(d) == PnlUntil(d, Len(trades))

PeakAt(d) ==
    SetMax({0} \cup {CumulativeAt(e) : e \in {x \in EntryDates : x <= d}})

ChronologicalMaxDrawdown ==
    SetMax({0} \cup {PeakAt(d) - CumulativeAt(d) : d \in EntryDates})

\* C20: max_drawdown is the maximum, over the trades in chronological
\* order, of the running peak of the cumulative realized pnl (the peak
\* starting at 0) minus the cumulative realized pnl; it is never negative,
\* also once run_analysis has sorted the trades newest first.
MaxDrawdownChronological ==
    pc \in {"equity", "sort", "done"} =>
        /\ performance_metrics # None
        /\ Val(performance_metrics).max_drawdown = ChronologicalMaxDrawdown
        /\ Val(performance_metrics).max_drawdown >= 0

\* The returned trades are newest first; the older one gained, the newer
\* one lost, and the drawdown is the loss from the peak the gain set.
MaxDrawdownWitness ==
    /\ pc = "done"
    /\ Len(trades) = 2
    /\ trades[1].entry_date > trades[2].entry_date
    /\ trades[2].pnl > 0
    /\ trades[1].pnl < 0
    /\ Val(performance_metrics).max_drawdown = 0 - trades[1].pnl

\* C25: run_analysis on a series with fewer bars than the slow window ends
\* with the not-enough-data error before any signal, trade, alert, metric or
\* equity point exists; a series of at least ma_50_period bars is never
\* rejected, and its finished run holds metrics and a full equity curve.
InsufficientDataRejected ==
    pc # "start" =>
        IF n_bars < cfg.ma_50_period
        THEN /\ pc = "error"
             /\ signals = <<>>
             /\ trades = <<>>
             /\ alerts = <<>>
             /\ performance_metrics = None
             /\ equity_curve = <<>>
             /\ df.ma_21 = <<>>
        ELSE /\ pc # "error"
             /\ pc = "done" => /\ performance_metrics # None
                               /\ Len(equity_curve) = n_bars

\* A series one bar short of the slow window was rejected with nothing
\* produced.
InsufficientDataWitness ==
    /\ pc = "error"
    /\ n_bars = cfg.ma_50_period - 1
    /\ signals = <<>>
    /\ performance_metrics = None

\* C28: run_analysis leaves the caller's price frame as it was: no column
\* is added, removed or overwritten (an opening price, once read, keeps its
\* value).
FrameUnchanged ==
    [][/\ [df' EXCEPT !.open = df.open] = df
       /\ \A b \in 1..n_bars :
             df.open[b] # Unread => df'.open[b] = df.open[b]
      ]_vars

\* C27: a second call of run_analysis with the same configuration on the
\* frame the first call worked on returns the same signals, trades, alerts,
\* metrics and equity curve as the first.
RerunIdentical ==
    (run_no = 2 /\ pc = "done") =>
        /\ signals = Val(first_result).signals
        /\ trades = Val(first_result).trades
        /\ alerts = Val(first_result).mean_reversion_alerts
        /\ performance_metrics = Val(first_result).performance_metrics
        /\ equity_curve = Val(first_result).equity_curve

\* The second call has returned a result with a trade and an alert, on a
\* frame that carried the first call's indicator columns.
RerunIdenticalWitness ==
    /\ run_no = 2
    /\ pc = "done"
    /\ Len(trades) >= 1
    /\ Len(signals) >= 2
    /\ Len(alerts) >= 1

\* C29: an evaluation interleaved with the evaluation of another
\* (fast, slow) pair over the same frame returns the result it returns when
\* run alone.
InterleavedAsAlone ==
    (run_no = 2 /\ pc = "done" /\ other # None) =>
        MAResults = Val(first_result)

\* C21: the pairs _generate_ma_pairs returns are exactly the pairs (fast,
\* slow) with fast in [fast_min, fast_max], slow in [slow_min, slow_max] and
\* slow - fast >= min_distance, each of them once, and no other pair is
\* evaluated.
ValidPairs ==
    {pair \in (Val(sweep).fast_ma_range[1]..Val(sweep).fast_ma_range[2])
                \X (Val(sweep).slow_ma_range[1]..Val(sweep).slow_ma_range[2]) :
        pair[2] - pair[1] >= Val(sweep).min_distance}

PairsAreTheValidOnes ==
    opt_pc \in {"sweep", "running"} =>
        /\ {ma_pairs[n] : n \in 1..Len(ma_pairs)} = ValidPairs
        /\ Len(ma_pairs) = Cardinality(ValidPairs)
        /\ \A e \in 1..Len(evaluations) : evaluations[e].pair \in ValidPairs

PairsAreTheValidOnesWitness ==
    /\ opt_pc = "sweep"
    /\ pair_index > Len(ma_pairs)
    /\ Len(ma_pairs) >= 3
    /\ Len(evaluations) = Len(ma_pairs)
    /\ \E fast_ma \in Val(sweep).fast_ma_range[1]..Val(sweep).fast_ma_range[2],
          slow_ma \in Val(sweep).slow_ma_range[1]..Val(sweep).slow_ma_range[2] :
          <<fast_ma, slow_ma>> \notin ValidPairs
    /\ \E n \in 1..Len(ma_pairs) :
          /\ ma_pairs[n][1] = Val(sweep).fast_ma_range[2]
          /\ ma_pairs[n][2] = Val(sweep).slow_ma_range[2]
          /\ ma_pairs[n][2] - ma_pairs[n][1] = Val(sweep).min_distance
\* C22: in the summary optimize_ma_pairs builds, all_results holds the
\* results of the sweep in non-increasing order of total_return_percent,
\* top_5_pairs is its first min(5, n) entries and best_pair is its first
\* entry.
SummaryIsRanked ==
    summary # None =>
        LET all == Val(summary).all_results
            n == Len(all)
        IN  /\ n = Len(results)
            /\ \A r \in 1..Len(results) : \E a \in 1..n : all[a] = results[r]
            /\ \A a \in 1..(n - 1) :
                 RLe(all[a + 1].total_return_percent,
                     all[a].total_return_percent)
            /\ Val(summary).top_5_pairs =
                 [a \in 1..(IF n < 5 THEN n ELSE 5) |-> all[a]]
            /\ n > 0 => Val(summary).best_pair = Some(all[1])

SummaryIsRankedWitness ==
    /\ summary # None
    /\ Len(Val(summary).all_results) >= 6
    /\ Len(Val(summary).top_5_pairs) = 5
    /\ Val(summary).all_results # results
    /\ RLt(Last(Val(summary).all_results).total_return_percent,
           Val(Val(summary).best_pair).total_return_percent)
    /\ \A a \in 1..5 :
          Val(summary).top_5_pairs[a] # Last(Val(summary).all_results)
\* C23: when the sweep of a symbol is over, every generated pair has been
\* evaluated, whatever happened to the pairs before it, and all_results has
\* exactly one entry for each pair whose run produced at least one trade:
\* a pair whose run raised or produced no trade has no entry.
EntriesOf(pair) ==
    {a \in 1..Len(Val(summary).all_results) :
        /\ Val(summary).all_results[a].fast_ma = pair[1]
        /\ Val(summary).all_results[a].slow_ma = pair[2]}

DroppedPairsDoNotStopTheSweep ==
    summary # None =>
        /\ Len(evaluations) = Len(ma_pairs)
        /\ \A n \in 1..Len(ma_pairs) :
             /\ evaluations[n].pair = ma_pairs[n]
             /\ Cardinality(EntriesOf(ma_pairs[n])) =
                  IF ~evaluations[n].raised /\ evaluations[n].trades >= 1
                  THEN 1 ELSE 0
        /\ \A a \in 1..Len(Val(summary).all_results) :
             \E n \in 1..Len(ma_pairs) : a \in EntriesOf(ma_pairs[n])

DroppedPairsWitness ==
    /\ summary # None
    /\ \E a, b, c \in 1..Len(evaluations) :
          /\ a < b
          /\ evaluations[a].raised
          /\ ~evaluations[b].raised /\ evaluations[b].trades >= 1
          /\ ~evaluations[c].raised /\ evaluations[c].trades = 0
    /\ Val(summary).all_results # <<>>
\* C24: a symbol with enough data whose sweep has ended gets a summary from
\* optimize_ma_pairs, also when no pair was generated or every pair was
\* dropped; the summary then has no best pair and empty top_5_pairs and
\* all_results.
SummaryReturnedWhenNothingRanked ==
    \A n \in 1..Len(Symbols) :
        status[n] \in {"returned", "raised"} =>
            /\ universal_results[n] # None
            /\ Val(universal_results[n]).all_results = <<>> =>
                 /\ Val(universal_results[n]).best_pair = None
                 /\ Val(universal_results[n]).top_5_pairs = <<>>
\* C26: when universal_optimization has returned, every requested symbol
\* has been tried, also after a failure; the map holds the summary of each
\* symbol whose optimization returned one and nothing for a symbol whose
\* optimization raised; and the counts of pair_frequency add up to the
\* number of returned summaries that have a best pair.
RECURSIVE SumCounts(_)
SumCounts(keys) ==
    IF keys = {} THEN 0
    ELSE LET key == CHOOSE x \in keys : TRUE
         IN  pair_frequency[key] + SumCounts(keys \ {key})

UniversalMapAndCounts ==
    opt_pc = "finished" =>
        /\ \A n \in 1..Len(Symbols) :
             /\ status[n] # "pending"
             /\ stock_data[n] = None => universal_results[n] = None
             /\ stock_data[n] # None /\ Len(Val(stock_data[n])) < MinSweepBars
                  => universal_results[n] = None
             /\ status[n] = "raised" => universal_results[n] = None
             /\ status[n] = "returned" =>
                  /\ universal_results[n] # None
                  /\ Val(universal_results[n]).symbol = Symbols[n]
        /\ SumCounts(DOMAIN pair_frequency) =
             Cardinality({n \in 1..Len(Symbols) :
                 /\ universal_results[n] # None
                 /\ Val(universal_results[n]).best_pair # None})

UniversalMapWitness ==
    /\ opt_pc = "finished"
    /\ status[1] = "insufficient"
    /\ status[2] = "returned"
    /\ SumCounts(DOMAIN pair_frequency) = 1
\* C30: the run over the 120 bars whose close rises by 0.5 a bar from 100.0,
\* under the default configuration, returns exactly one signal, a primary
\* BUY on a bar near bar 50, no SELL, and exactly one trade, closed at the
\* end of the period with a positive pnl.
NearBarFifty == {LongDays[b + 1] : b \in 45..55}

RisingRunBuysOnce ==
    (pc = "done" /\ cfg = DefaultConfig /\ df.close = RisingCloses) =>
        /\ Len(signals) = 1
        /\ signals[1].signal_type = "BUY"
        /\ signals[1].reasoning = "Primary entry: Price closed above 50 MA"
        /\ signals[1].date \in NearBarFifty
        /\ Len(trades) = 1
        /\ trades[1].exit_signal = "End of period - position closed"
        /\ trades[1].exit_date = LongDays[LongBars]
        /\ trades[1].pnl > 0
\* C31: the run over 60 bars that all close at the same price, under the
\* default configuration, returns no signal, no trade and no alert, an
\* equity curve that equals initial_capital on every bar, and metrics that
\* are all zero.
FlatRunIsEmpty ==
    (pc = "done" /\ cfg = DefaultConfig /\ df.close = FlatCloses) =>
        /\ signals = <<>>
        /\ trades = <<>>
        /\ alerts = <<>>
        /\ Len(equity_curve) = FlatBars
        /\ \A b \in 1..Len(equity_curve) :
             /\ equity_curve[b].equity = cfg.initial_capital
             /\ equity_curve[b].date = df.date[b]
        /\ performance_metrics =
             Some([total_trades |-> 0, winning_trades |-> 0,
                   losing_trades |-> 0, win_rate |-> FromInt(0),
                   total_pnl |-> 0, total_return_percent |-> FromInt(0),
                   avg_trade_duration |-> FromInt(0), max_drawdown |-> 0,
                   sharpe_ratio |-> 0])

FlatRunWitness ==
    /\ pc = "done"
    /\ cfg = DefaultConfig
    /\ df.close = FlatCloses
    /\ i = FlatBars
    /\ alert_i = FlatBars
    /\ \A b \in 1..FlatBars : df.ma_50[b] = FromInt(200) /\ ~isna(df.atr[b])
\* C32: the simple moving average of period p has one value for each bar
\* of the input, is undefined (NaN) on the first p - 1 bars, and on every
\* later bar is the arithmetic mean of the close of that bar and of the
\* p - 1 closes before it.
RECURSIVE CloseSum(_, _)
CloseSum(lo, hi) ==
    IF hi < lo THEN 0 ELSE df.close[hi] + CloseSum(lo, hi - 1)

IsTrailingMean(column, p) ==
    /\ Len(column) = Len(df.close)
    /\ \A b \in 1..Len(column) :
         IF b < p THEN isna(column[b])
         ELSE /\ column[b].d > 0
              /\ column[b].n * p = column[b].d * CloseSum(b - p + 1, b)

SmaIsTrailingMean ==
    (cfg.ma_type = "sma" /\ pc \notin {"start", "error", "idle"}) =>
        /\ IsTrailingMean(df.ma_21, cfg.ma_21_period)
        /\ IsTrailingMean(df.ma_50, cfg.ma_50_period)

SmaIsTrailingMeanWitness ==
    /\ cfg.ma_type = "sma"
    /\ pc = "signals"
    /\ cfg.ma_50_period = 4
    /\ isna(df.ma_50[3])
    /\ df.ma_50[4] = [n |-> 9, d |-> 4]
    /\ df.ma_50[5] = [n |-> 3, d |-> 1]
    /\ df.ma_21[3] = [n |-> 8, d |-> 3]
\* C33: every trade the executor records, whether a SELL closes the
\* position or the end of the series does, carries the is_reentry flag of
\* the BUY that opened the position (true exactly for a re-entry) and the
\* re-entry count the position had at entry.
TradeKeepsEntryKind ==
    [][(pc = "execute" /\ Len(trades') = Len(trades) + 1) =>
          LET pos == Val(current_position)
              trade == trades'[Len(trades')]
          IN  /\ trade.is_reentry = (pos.entry_signal = ReentryText)
              /\ trade.is_reentry = pos.is_reentry
              /\ trade.reentry_count = pos.reentry_count]_vars
\* C34: in the list _execute_trades returns, in the order it appends the
\* trades, no trade ends before it begins, a trade closed by a SELL ends
\* strictly after it begins, every trade begins strictly after the trade
\* before it ended, and no two trades have the same exit date.
Chronological == pc \in {"execute", "alerts", "equity", "sort"}

TradeWindowsDisjoint ==
    Chronological =>
        /\ \A t \in 1..Len(trades) :
             /\ trades[t].exit_date >= trades[t].entry_date
             /\ trades[t].exit_signal # "End of period - position closed"
                  => trades[t].exit_date > trades[t].entry_date
             /\ t > 1 => trades[t].entry_date > trades[t - 1].exit_date
        /\ \A t, u \in 1..Len(trades) :
             t # u => trades[t].exit_date # trades[u].exit_date

TradeWindowsWitness ==
    /\ pc = "alerts"
    /\ Len(trades) = 2
    /\ trades[1].exit_date = trades[1].entry_date + 1
    /\ trades[2].entry_date = trades[1].exit_date + 1
    /\ trades[2].exit_date = trades[2].entry_date
    /\ trades[2].exit_signal = "End of period - position closed"
\* C35: on a bar where the generator is flat and both the primary-entry
\* condition and the re-entry condition hold, the step emits exactly one
\* signal, a primary BUY, and sets the re-entry counter to 0.
PrimaryEntryWins ==
    [][(GenStepTaken /\ ~indicators_missing /\ is_new_trend /\ can_reenter) =>
          /\ Len(signals') = Len(signals) + 1
          /\ signals'[Len(signals')].signal_type = "BUY"
          /\ signals'[Len(signals')].reasoning = PrimaryEntryText
          /\ signals'[Len(signals')].date = Date(i)
          /\ gen_reentry_count' = 0
          /\ in_trade']_vars

\* Both entry conditions on the bar b of the frame, for a flat generator
\* that has exited before.
BothEntryConditionsAt(b) ==
    /\ b > 0
    /\ RLt(At(df.ma_50, b), FromInt(At(df.close, b)))
    /\ RLe(FromInt(At(df.close, b - 1)), At(df.ma_50, b - 1))
    /\ RLt(At(df.ma_21, b), FromInt(At(df.close, b)))
    /\ RLt(At(df.ma_50, b), At(df.ma_21, b))
    /\ RLe(FromInt(At(df.close, b - 1)), At(df.ma_21, b - 1))

PrimaryEntryWinsWitness ==
    /\ pc = "signals"
    /\ i > start_index
    /\ BothEntryConditionsAt(i - 1)
    /\ Len(signals) >= 3
    /\ signals[Len(signals) - 1].signal_type = "SELL"
    /\ signals[Len(signals)].date = Date(i - 1)
    /\ signals[Len(signals)].reasoning = PrimaryEntryText
    /\ gen_reentry_count = 0
\* C36: a SELL signal that the executor meets while it holds no position
\* changes nothing: no trade is recorded, available_capital is what it was,
\* the executor stays flat, and no price is read.
OrphanSellChangesNothing ==
    [][(ExecStepTaken /\ signal.signal_type = "SELL" /\ current_position = None)
          => /\ trades' = trades
             /\ available_capital' = available_capital
             /\ current_position' = None
             /\ reentry_count' = reentry_count
             /\ df' = df]_vars

\* The BUY before the SELL could be filled but was sized to zero shares; the
\* SELL has been processed.
OrphanSellWitness ==
    /\ pc = "execute"
    /\ k = 3
    /\ signals[1].signal_type = "BUY"
    /\ date_to_index(signals[1].date) + 1 < n_bars
    /\ signals[2].signal_type = "SELL"
    /\ date_to_index(signals[2].date) + 1 < n_bars
    /\ current_position = None
    /\ trades = <<>>
    /\ available_capital = cfg.initial_capital
\* C37: in generation order the dates of the signals are strictly
\* increasing, so that no bar carries two signals (a BUY bar never carries a
\* SELL as well); no signal is dated before bar
\* max(ma_50_period, atr_period), and while the loop runs every signal is
\* dated on a bar the loop has visited.
SignalDatesIncrease ==
    pc \in {"signals", "execute", "alerts", "equity", "sort"} =>
        \A j \in 1..Len(signals) :
            /\ j > 1 => signals[j].date > signals[j - 1].date
            /\ \E b \in 0..(n_bars - 1) :
                 /\ signals[j].date = Date(b)
                 /\ b >= cfg.ma_50_period
                 /\ b >= cfg.atr_period
                 /\ pc = "signals" => b < i

SignalDatesWitness ==
    /\ pc = "signals"
    /\ Len(signals) = 3
    /\ signals[1].date = Date(cfg.ma_50_period)
    /\ signals[2].date = Date(cfg.ma_50_period + 1)
    /\ signals[3].date = Date(cfg.ma_50_period + 2)
    /\ signals[1].signal_type = "BUY"
    /\ signals[2].signal_type = "SELL"

FirstQualifyingBar(t, b) ==
    /\ trades[t].entry_date <= Date(b)
    /\ Date(b) <= trades[t].exit_date
    /\ AlertConditionAt(b)
    /\ \A a \in 0..(b - 1) :
           trades[t].entry_date <= Date(a) => ~AlertConditionAt(a)

\* C38: the alert state is kept per trade.  When the alert loop visits the
\* entry bar of a trade the detector is disarmed and the recorded peak
\* distance is 0, and once the loop is over every trade that has a bar on
\* which the alert condition holds has an alert dated on the first such bar
\* of its window, also when the trade was entered on the bar right after
\* the exit bar of the trade before it.
AlertStatePerTrade ==
    /\ (pc = "alerts" /\ alert_i < n_bars
          /\ \E t \in 1..Len(trades) : trades[t].entry_date = alert_date)
       => (~alert_triggered /\ peak_distance = FromInt(0))
    /\ pc \in {"equity", "sort", "done"} =>
           \A t \in 1..Len(trades) : \A b \in 0..(n_bars - 1) :
               FirstQualifyingBar(t, b) =>
                   \E a \in 1..Len(alerts) : alerts[a].date = Date(b)
=============================================================================
